---- MODULE Spec2Model ----
(***************************************************************************)
(* Discrete-event model of the ero2 job-processing simulation.             *)
(*                                                                         *)
(* The program drives Python generators over a SimPy environment.  The     *)
(* model keeps the environment's event heap (time, priority, event id),    *)
(* the Resource's users and put queue, every Job object, the position of   *)
(* every process (generator) and the logger's event list.  One action      *)
(* models one run of a process between two suspension points, i.e. what    *)
(* Environment.step executes for the event at the head of the heap.        *)
(*                                                                         *)
(* Virtual time is discretised to integer ticks.  random.expovariate is a  *)
(* draw from a small set that contains 0 (two events at one instant).      *)
(* The wall-clock 'timestamp' of a log record, Job.assignment and          *)
(* Job.server_id are not simulation state and are left out.                *)
(***************************************************************************)
EXTENDS Integers, Sequences, FiniteSets, TLC

VARIABLES
    cfg,            \* scenario parameters fixed at construction
    state,          \* "built" | "running" | "stopped" : position of run()
    now,            \* env.now
    evq,            \* env._queue : the pending events
    eid,            \* env._eid   : next event id
    users,          \* resource.users : processes holding a slot, in grant order
    queue,          \* resource.queue (put_queue) : processes waiting for a slot
    custom_queue,   \* HeterogeneousServer.custom_queue.queue : waiting jobs
    jobs,           \* the Job objects of the run, in creation order
    Job_id_counter, \* Job._id_counter (class attribute, process-wide)
    procs,          \* procs[i] : the process created for jobs[i]
    gens,           \* the arrival generator processes
    log,            \* logger.events
    stats,          \* the resource's counters
    rng,            \* the random module: seeded flag, the seed's stream, position
    run_no,         \* number of SimulationEngine objects constructed so far
    first_log,      \* logger.events of the first engine, kept by its caller
    pq_call,        \* last PriorityQueue call: operation, queue before, result
    last_call,      \* last direct call of is_open / should_backup: argument, result
    issued          \* ids given by Job.__init__ since the process started,
                    \* one sequence per period between two reset() calls

vars == << cfg, state, now, evq, eid, users, queue, custom_queue, jobs,
           Job_id_counter, procs, gens, log, stats, rng, run_no, first_log,
           pq_call, last_call, issued >>

----------------------------------------------------------------------------
(* Bounds of the model *)

MaxJobs == 3        \* jobs created per run
MaxServers == 2     \* largest num_servers
MaxQueueSize == 1   \* largest max_queue_size
MaxDur == 2         \* largest service duration, in ticks
Horizon == 4        \* run(until = Horizon)
MaxRuns == 2        \* engines constructed one after the other in one process
MaxGateTime == 8    \* largest bound of a gating interval in direct is_open calls

(* Program constants *)

None == -1          \* Python None in a numeric field
URGENT == 0         \* simpy priority of Initialize and of the until event
NORMAL == 1         \* simpy priority of every other event

\* inter-arrival draws; a draw of Horizon leaves the next arrival pending when
\* the run ends (the scenarios with two generators draw from the short gaps)
Gaps == IF cfg.variant = "HeterogeneousServer" THEN {0, 1} ELSE {0, 1, Horizon}
Durations == {0, 1, MaxDur}     \* service-time draws
BackupTimes == {0, 1}           \* backup-time draws
ServerCounts == {1, MaxServers}
QueueSizes == {0, MaxQueueSize}
JobTypes == {"ING", "PREPA", "AUTRE"}
RemoveAt_keep(s, i) == s          \* a read that pops nothing
RemoveAt(s, i) == SubSeq(s, 1, i - 1) \o SubSeq(s, i + 1, Len(s))

RemoveValue(s, v) ==
    LET idx == {i \in 1..Len(s) : s[i] = v}
    IN IF idx = {} THEN s
       ELSE RemoveAt(s, CHOOSE i \in idx : \A j \in idx : i <= j)

----------------------------------------------------------------------------
(* simpy.Environment: the event heap *)

Event(t, p, id, k, w) ==
    [time |-> t, prio |-> p, eid |-> id, kind |-> k, who |-> w]

\* the priority left out of the heap key: (time, event id)
Before_by_eid(e, f) ==
    \/ e.time < f.time
    \/ e.time = f.time /\ e.eid < f.eid

\* heap order: (time, priority, event id)
Before(e, f) ==
    \/ e.time < f.time
    \/ e.time = f.time /\ e.prio < f.prio
    \/ e.time = f.time /\ e.prio = f.prio /\ e.eid < f.eid

\* heappush: evq is kept in heap order, so that evq[1] is the next event
RECURSIVE Push(_, _)
Push(q, e) ==
    IF q = <<>> THEN <<e>>
    ELSE IF Before(e, Head(q)) THEN <<e>> \o q
    ELSE <<Head(q)>> \o Push(Tail(q), e)

RECURSIVE PushAll(_, _)
PushAll(q, es) == IF es = <<>> THEN q ELSE PushAll(Push(q, Head(es)), Tail(es))

\* the event Environment.step pops
Cur == Head(evq)

\* the heap after the pop
Rest == Tail(evq)

\* a kernel that keeps popping events after the until event has fired
Fires_after_stop(k, w) ==
    /\ state \in {"running", "stopped"}
    /\ evq # <<>>
    /\ Cur.kind = k
    /\ Cur.who[1] = w

\* Environment.step inside env.run: the event popped is of kind k for a
\* process of kind w
Fires(k, w) ==
    /\ state = "running"
    /\ evq # <<>>
    /\ Cur.kind = k
    /\ Cur.who[1] = w

----------------------------------------------------------------------------
(* simpy.Resource *)

\* a put queue served without regard to the capacity
TriggerPut_unbounded(u, q) ==
    IF q # <<>>
    THEN [users |-> Append(u, Head(q)), queue |-> Tail(q), granted |-> <<Head(q)>>]
    ELSE [users |-> u, queue |-> q, granted |-> <<>>]

\* a put queue served from its tail
TriggerPut_last(u, q) ==
    IF q # <<>> /\ Len(u) < cfg.num_servers
    THEN [users |-> Append(u, q[Len(q)]), queue |-> SubSeq(q, 1, Len(q) - 1),
          granted |-> <<q[Len(q)]>>]
    ELSE [users |-> u, queue |-> q, granted |-> <<>>]

\* BaseResource._trigger_put with Resource._do_put: only the head of the put
\* queue is tried (Resource._do_put returns None, which ends the loop)
TriggerPut(u, q) ==
    IF q # <<>> /\ Len(u) < cfg.num_servers
    THEN [users |-> Append(u, Head(q)), queue |-> Tail(q), granted |-> <<Head(q)>>]
    ELSE [users |-> u, queue |-> q, granted |-> <<>>]

\* a request that is appended and not tried
Request_no_trigger(p) ==
    [users |-> users, queue |-> Append(queue, p), granted |-> <<>>]

\* resource.request() by process p: Put.__init__ appends, then _trigger_put
Request(p) == TriggerPut(users, Append(queue, p))

\* the Request events that succeed() schedules for the granted processes
GrantEvents(granted, id) ==
    [k \in 1..Len(granted) |->
       Event(now', NORMAL, id + k - 1, "Request", <<"job", granted[k]>>)]

----------------------------------------------------------------------------
(* random *)

\* v is the k-th value (k = 0, 1, ..) this step draws from set S.  After
\* random.seed(s) the stream is a function of the seed: a value drawn once at
\* a position is the value every later reseeding yields at that position.
random_draw(S, v, k) ==
    IF rng.seeded /\ rng.pos + k <= Len(rng.tape)
    THEN v = rng.tape[rng.pos + k]
    ELSE v \in S

\* the random module after this step drew the values vs
rng_after(vs) ==
    IF ~rng.seeded THEN rng
    ELSE [rng EXCEPT !.pos = @ + Len(vs),
                     !.tape = IF rng.pos + Len(vs) - 1 <= Len(@) THEN @
                              ELSE SubSeq(@, 1, rng.pos - 1) \o vs]

----------------------------------------------------------------------------
(* Job and the logger *)

Job(id, t, ty) ==
    [id |-> id, arrival_time |-> t, job_type |-> ty, service_time |-> None,
     start_time |-> None, end_time |-> None, was_rejected |-> FALSE,
     rejection_reason |-> "None"]

\* the difference taken the wrong way round
get_waiting_time_reversed(j) ==
    IF j.start_time = None THEN None ELSE j.arrival_time - j.start_time

get_waiting_time(j) ==
    IF j.start_time = None THEN None ELSE j.start_time - j.arrival_time

\* the response time counted from the start of the slot
get_response_time_from_start(j) ==
    IF j.end_time = None THEN None ELSE j.end_time - j.start_time

get_response_time(j) ==
    IF j.end_time = None THEN None ELSE j.end_time - j.arrival_time

\* the record stamped with the job's arrival time, not the time passed in
log_event_at_arrival(t, ty, j, ql) ==
    [time |-> j.arrival_time, event_type |-> ty, entity_id |-> j.id,
     entity_type |-> j.job_type, server_id |-> cfg.server_id,
     queue_length |-> ql, rejection_reason |-> "None", in_system |-> None,
     service_time |-> None, backup_time |-> None, waiting_time |-> None,
     response_time |-> None]

\* SimulationLogger.log_event: the record appended (extra_data merged in)
log_event(t, ty, j, ql) ==
    [time |-> t, event_type |-> ty, entity_id |-> j.id,
     entity_type |-> j.job_type, server_id |-> cfg.server_id,
     queue_length |-> ql, rejection_reason |-> "None", in_system |-> None,
     service_time |-> None, backup_time |-> None, waiting_time |-> None,
     response_time |-> None]

Proc(pc) == [pc |-> pc, current_job |-> None, needs_backup |-> FALSE,
             backup_time |-> 0]

\* pq_call before any PriorityQueue call: 'added' lists the jobs in the order
\* of the add calls, 'before' is the queue when the last get_next_* was called
NoCall == [op |-> "none", before |-> <<>>, result |-> None, added |-> <<>>]

\* last_call before any direct call
NoDirectCall == [op |-> "none", arg |-> None, result |-> FALSE]

InitStats ==
    [total_arrivals |-> 0, total_rejections |-> 0, rejections_queue_full |-> 0,
     jobs_completed |-> 0, jobs_processed |-> 0, jobs_backed_up |-> 0,
     arrivals |-> [t \in JobTypes |-> 0], completed |-> [t \in JobTypes |-> 0],
     is_operational |-> TRUE, failure_count |-> 0, total_downtime |-> 0]

----------------------------------------------------------------------------
(* Construction *)

Config(v, c, k, d) ==
    [variant |-> v, num_servers |-> c, max_queue_size |-> k, duration |-> d,
     server_id |-> v, populations |-> <<"ING">>, scheduling_policy |-> "FIFO",
     gating_intervals |-> <<>>, backup_strategy |-> "None", threshold |-> 0]

\* SimulationEngine.__init__ followed by the construction of the scenario
Constructed(c) ==
    /\ cfg = c
    /\ state = "built"
    /\ now = 0
    /\ evq = <<>>
    /\ eid = 0
    /\ users = <<>>
    /\ queue = <<>>
    /\ custom_queue = <<>>
    /\ jobs = <<>>
    /\ procs = <<>>
    /\ gens = [g \in 1..Len(c.populations) |->
                 [pc |-> "new", job_type |-> c.populations[g], jobs_generated |-> 0]]
    /\ log = <<>>
    /\ stats = InitStats

Idle ==
    /\ Job_id_counter = 0
    /\ run_no = 1
    /\ first_log = <<>>
    /\ pq_call = NoCall
    /\ last_call = NoDirectCall
    /\ issued = << <<>> >>

Policies == {"FIFO", "SJF", "PRIORITY"}
Populations == {<<"ING", "PREPA">>}
Gatings == {<<>>, << <<1, 2>> >>, << <<1, 2>>, <<2, 3>> >>}
Strategies == {"systematic", "random", "conditional"}
GenDurations == {Horizon - 1, Horizon}

\* core Server scenarios (tests/test_core.py)
ServerConfigs ==
    {Config("Server", c, 0, d) : c \in ServerCounts, d \in GenDurations}

\* LimitedQueue and LossSystem scenarios (WaterfallScenario, tests/test_capacity.py)
CapacityConfigs ==
    {Config("LossSystem", c, 0, d) : c \in ServerCounts, d \in GenDurations}
    \cup {Config("LimitedQueue", c, k, Horizon) : c \in ServerCounts, k \in QueueSizes}

\* a PriorityQueue on its own, no environment (tests/test_regulation.py)
PriorityQueueConfig ==
    [Config("PriorityQueue", 1, 0, Horizon) EXCEPT !.populations = <<>>]

\* ReliableServer scenarios (BackupComparison, tests/test_reliability.py)
ReliabilityConfigs ==
    {[Config("ReliableServer", c, 0, Horizon)
        EXCEPT !.backup_strategy = b, !.threshold = 1] :
       c \in ServerCounts, b \in Strategies}

Configs ==
    ServerConfigs
    \cup CapacityConfigs
    \cup {PriorityQueueConfig}
    \cup ReliabilityConfigs
    \cup {[Config("HeterogeneousServer", c, 0, Horizon)
             EXCEPT !.scheduling_policy = pol, !.populations = pop,
                    !.gating_intervals = g] :
            c \in ServerCounts, pol \in Policies, pop \in Populations,
            g \in Gatings}

\* the random module, unseeded (random_seed = None) or after random.seed(s)
Random(seeded) == [seeded |-> seeded, tape |-> <<>>, pos |-> 1]

Init ==
    /\ \E c \in Configs : Constructed(c)
    /\ rng = Random(FALSE)
    /\ Idle

\* a Server scenario, or a ReliableServer one whose backups depend on the queue
InitFair ==
    /\ \E c \in ServerConfigs
                \cup {r \in ReliabilityConfigs : r.backup_strategy = "conditional"} :
         Constructed(c)
    /\ rng = Random(FALSE)
    /\ Idle

InitCapacity ==
    /\ \E c \in CapacityConfigs : Constructed(c)
    /\ rng = Random(FALSE)
    /\ Idle

\* the first of the engines built with one seed
InitSeeded ==
    /\ \E c \in ServerConfigs : Constructed(c)
    /\ rng = Random(TRUE)
    /\ Idle

----------------------------------------------------------------------------
(* SimulationEngine.run and the scenario that starts the generators *)

\* env.process(generator.generate(..)) for each population, then
\* env.run(until = Horizon): the until event is URGENT at time Horizon
SimulationEngine_run ==
    /\ cfg.variant \notin {"PriorityQueue", "GatingController"}
    /\ state = "built"
    /\ state' = "running"
    /\ evq' = [g \in 1..Len(gens) |->
                 Event(0, URGENT, g - 1, "Initialize", <<"gen", g>>)]
              \o <<Event(Horizon, URGENT, Len(gens), "Until", <<"env", 0>>)>>
    /\ eid' = Len(gens) + 1
    /\ gens' = [g \in 1..Len(gens) |-> [gens[g] EXCEPT !.pc = "start"]]
    /\ UNCHANGED << cfg, now, users, queue, custom_queue, jobs, Job_id_counter,
                    procs, log, stats, rng, run_no, first_log, pq_call,
                    last_call, issued >>

\* A caller constructs the next SimulationEngine and the same scenario after
\* run() returned: a new Environment and logger, random.seed(random_seed) when
\* a seed is given; Job._id_counter is a class attribute and is not touched
SimulationEngine_init ==
    /\ state = "stopped"
    /\ run_no < MaxRuns
    /\ run_no' = run_no + 1
    /\ first_log' = IF run_no = 1 THEN log ELSE first_log
    /\ rng' = IF rng.seeded THEN [rng EXCEPT !.pos = 1] ELSE rng
    /\ state' = "built"
    /\ now' = 0
    /\ evq' = <<>>
    /\ eid' = 0
    /\ users' = <<>>
    /\ queue' = <<>>
    /\ custom_queue' = <<>>
    /\ jobs' = <<>>
    /\ procs' = <<>>
    /\ gens' = [g \in 1..Len(gens) |->
                  [pc |-> "new", job_type |-> gens[g].job_type, jobs_generated |-> 0]]
    /\ log' = <<>>
    /\ stats' = InitStats
    /\ UNCHANGED << cfg, Job_id_counter, pq_call,
                    last_call, issued >>

\* a reset that leaves Job._id_counter alone
SimulationEngine_reset_keeps_counter ==
    /\ state \in {"built", "stopped"}
    /\ run_no < MaxRuns
    /\ run_no' = run_no + 1
    /\ first_log' = IF run_no = 1 THEN log ELSE first_log
    /\ rng' = IF rng.seeded THEN [rng EXCEPT !.pos = 1] ELSE rng
    /\ state' = "built"
    /\ now' = 0
    /\ evq' = <<>>
    /\ eid' = 0
    /\ users' = <<>>
    /\ queue' = <<>>
    /\ custom_queue' = <<>>
    /\ jobs' = <<>>
    /\ procs' = <<>>
    /\ gens' = [g \in 1..Len(gens) |->
                  [pc |-> "new", job_type |-> gens[g].job_type, jobs_generated |-> 0]]
    /\ log' = <<>>
    /\ stats' = InitStats
    /\ issued' = Append(issued, <<>>)
    /\ UNCHANGED << cfg, Job_id_counter, pq_call, last_call >>

\* SimulationEngine.reset, before run() or after it returned, followed by the
\* construction of the same scenario on the new Environment: the logger is
\* cleared, Job._id_counter is set to 0, random.seed(random_seed) when a seed
\* is given; the ids issued from here on are a new list of 'issued'
SimulationEngine_reset ==
    /\ state \in {"built", "stopped"}
    /\ run_no < MaxRuns
    /\ run_no' = run_no + 1
    /\ first_log' = IF run_no = 1 THEN log ELSE first_log
    /\ rng' = IF rng.seeded THEN [rng EXCEPT !.pos = 1] ELSE rng
    /\ state' = "built"
    /\ now' = 0
    /\ evq' = <<>>
    /\ eid' = 0
    /\ users' = <<>>
    /\ queue' = <<>>
    /\ custom_queue' = <<>>
    /\ jobs' = <<>>
    /\ procs' = <<>>
    /\ gens' = [g \in 1..Len(gens) |->
                  [pc |-> "new", job_type |-> gens[g].job_type, jobs_generated |-> 0]]
    /\ log' = <<>>
    /\ stats' = InitStats
    /\ Job_id_counter' = 0
    /\ issued' = Append(issued, <<>>)
    /\ UNCHANGED << cfg, pq_call, last_call >>

\* the until event fires: StopSimulation, run() returns
Environment_stop ==
    /\ Fires("Until", "env")
    /\ now' = Cur.time
    /\ evq' = Rest
    /\ state' = "stopped"
    /\ UNCHANGED << cfg, eid, users, queue, custom_queue, jobs, Job_id_counter,
                    procs, gens, log, stats, rng, run_no, first_log, pq_call,
                    last_call, issued >>

----------------------------------------------------------------------------
(* Arrival generators: JobGenerator.generate, PopulationGenerator.generate, *)
(* WaterfallScenario.arrivals_*, BackupComparison.arrivals_for_server       *)

LogsArrival == cfg.variant \in {"Server", "ReliableServer"}

\* first entry of the loop: draw the inter-arrival time and sleep
generate_start ==
    /\ Fires("Initialize", "gen")
    /\ LET g == Cur.who[2] IN
       \E gap \in Gaps :
         /\ random_draw(Gaps, gap, 0)
         /\ now' = Cur.time
         /\ evq' = Push(Rest, Event(Cur.time + gap, NORMAL, eid, "Timeout", <<"gen", g>>))
         /\ eid' = eid + 1
         /\ gens' = [gens EXCEPT ![g].pc = "sleep"]
         /\ rng' = rng_after(<<gap>>)
    /\ UNCHANGED << cfg, state, users, queue, custom_queue, jobs, Job_id_counter,
                    procs, log, stats, run_no, first_log, pq_call,
                    last_call, issued >>

\* the timeout fired before the duration: create the Job, start its process,
\* then loop (the generator returns once MaxJobs jobs exist in the run)
generate_arrival ==
    /\ Fires("Timeout", "gen")
    /\ Cur.time < cfg.duration
    /\ LET g == Cur.who[2]
           job == Job(Job_id_counter, Cur.time, gens[g].job_type)
           i == Len(jobs) + 1
           last == i >= MaxJobs
       IN
       \E gap \in Gaps :
         /\ last \/ random_draw(Gaps, gap, 0)
         /\ last => gap = 0
         /\ now' = Cur.time
         /\ jobs' = Append(jobs, job)
         /\ Job_id_counter' = Job_id_counter + 1
         /\ issued' = [issued EXCEPT ![Len(issued)] = Append(@, job.id)]
         /\ procs' = Append(procs, Proc("start"))
         /\ log' = IF LogsArrival
                   THEN Append(log, log_event(Cur.time, "arrival", job, Len(queue)))
                   ELSE log
         /\ evq' = LET q == Push(Rest, Event(Cur.time, URGENT, eid, "Initialize",
                                             <<"job", i>>))
                   IN IF last THEN q
                      ELSE Push(q, Event(Cur.time + gap, NORMAL, eid + 1, "Timeout",
                                         <<"gen", g>>))
         /\ eid' = eid + 2
         /\ gens' = [gens EXCEPT ![g].pc = IF last THEN "done" ELSE "sleep",
                                 ![g].jobs_generated = @ + 1]
         /\ rng' = IF last THEN rng ELSE rng_after(<<gap>>)
    /\ UNCHANGED << cfg, state, users, queue, custom_queue, stats, run_no,
                    first_log, pq_call, last_call >>

\* the timeout fired at or after the duration: break, the generator returns
generate_stop ==
    /\ Fires("Timeout", "gen")
    /\ Cur.time >= cfg.duration
    /\ now' = Cur.time
    /\ evq' = Rest
    /\ eid' = eid + 1
    /\ gens' = [gens EXCEPT ![Cur.who[2]].pc = "done"]
    /\ UNCHANGED << cfg, state, users, queue, custom_queue, jobs, Job_id_counter,
                    procs, log, stats, rng, run_no, first_log, pq_call,
                    last_call, issued >>

----------------------------------------------------------------------------
(* Events of the kernel that resume no process body *)

\* a Release event is processed: its callback is resource._trigger_put
\* a Release event whose callback wakes no waiting request
Release_processed_no_trigger ==
    /\ Fires("Release", "job")
    /\ now' = Cur.time
    /\ evq' = Rest
    /\ UNCHANGED << cfg, state, eid, users, queue, custom_queue, jobs,
                    Job_id_counter, procs, gens, log, stats, rng, run_no,
                    first_log, pq_call, last_call, issued >>

Release_processed ==
    /\ Fires("Release", "job")
    /\ now' = Cur.time
    /\ LET r == TriggerPut(users, queue) IN
         /\ users' = r.users
         /\ queue' = r.queue
         /\ evq' = PushAll(Rest, GrantEvents(r.granted, eid))
         /\ eid' = eid + Len(r.granted)
    /\ UNCHANGED << cfg, state, custom_queue, jobs, Job_id_counter, procs, gens,
                    log, stats, rng, run_no, first_log, pq_call,
                    last_call, issued >>

\* The Process event of a process that returned takes an event id; nobody
\* waits on a job's or a generator's process, so it has no callback and is
\* not kept on the heap.  Only wait_until_open's Process event resumes a
\* process.

----------------------------------------------------------------------------
(* The release at the end of a 'with resource.request()' block followed by *)
(* the return of the process: users loses p, a Release event and then the  *)
(* Process event are scheduled                                             *)

\* the return without the release: the slot stays taken
ReleaseAndReturn_keeps_slot(p) ==
    /\ users' = users
    /\ evq' = Rest
    /\ eid' = eid + 1

ReleaseAndReturn(p) ==
    /\ users' = RemoveValue(users, p)
    /\ evq' = Push(Rest, Event(now', NORMAL, eid, "Release", <<"job", p>>))
    /\ eid' = eid + 2

\* resource.request() by p, then 'yield request'
RequestAndWait(p) ==
    LET r == Request(p) IN
      /\ users' = r.users
      /\ queue' = r.queue
      /\ evq' = PushAll(Rest, GrantEvents(r.granted, eid))
      /\ eid' = eid + Len(r.granted)

----------------------------------------------------------------------------
(* core Server.process *)

Server_process_request ==
    /\ cfg.variant = "Server"
    /\ Fires("Initialize", "job")
    /\ now' = Cur.time
    /\ RequestAndWait(Cur.who[2])
    /\ procs' = [procs EXCEPT ![Cur.who[2]].pc = "request"]
    /\ UNCHANGED << cfg, state, custom_queue, jobs, Job_id_counter, gens, log,
                    stats, rng, run_no, first_log, pq_call,
                    last_call, issued >>

Server_process_start ==
    /\ cfg.variant = "Server"
    /\ Fires("Request", "job")
    /\ LET p == Cur.who[2] IN
       \E st \in Durations :
         /\ random_draw(Durations, st, 0)
         /\ now' = Cur.time
         /\ jobs' = [jobs EXCEPT ![p].start_time = Cur.time,
                                 ![p].service_time = st]
         /\ log' = Append(log, log_event(Cur.time, "start_service", jobs[p], Len(queue)))
         /\ evq' = Push(Rest, Event(Cur.time + st, NORMAL, eid, "Timeout", <<"job", p>>))
         /\ eid' = eid + 1
         /\ procs' = [procs EXCEPT ![p].pc = "service"]
         /\ rng' = rng_after(<<st>>)
    /\ UNCHANGED << cfg, state, users, queue, custom_queue, Job_id_counter, gens,
                    stats, run_no, first_log, pq_call,
                    last_call, issued >>

Server_process_end ==
    /\ cfg.variant = "Server"
    /\ Fires("Timeout", "job")
    /\ LET p == Cur.who[2]
           j == [jobs[p] EXCEPT !.end_time = Cur.time]
       IN
         /\ now' = Cur.time
         /\ jobs' = [jobs EXCEPT ![p] = j]
         /\ stats' = [stats EXCEPT !.jobs_processed = @ + 1]
         /\ log' = Append(log,
                     [log_event(Cur.time, "end_service", j, Len(queue))
                        EXCEPT !.service_time = j.service_time,
                               !.waiting_time = get_waiting_time(j),
                               !.response_time = get_response_time(j)])
         /\ ReleaseAndReturn(p)
         /\ procs' = [procs EXCEPT ![p].pc = "done"]
    /\ UNCHANGED << cfg, state, queue, custom_queue, Job_id_counter, gens, rng,
                    run_no, first_log, pq_call,
                    last_call, issued >>

----------------------------------------------------------------------------
(* LimitedQueue *)

get_queue_length == Len(queue)

get_total_in_system == Len(users) + Len(queue)

\* the admission test with '>' written for '>='
LimitedQueue_is_full_strict(total_in_system) ==
    total_in_system > cfg.num_servers + cfg.max_queue_size

\* the admission test on the waiting jobs alone, the busy servers forgotten
LimitedQueue_is_full_waiting(total_in_system) ==
    Len(queue) >= cfg.max_queue_size

\* the admission test of LimitedQueue.process_job
LimitedQueue_is_full(total_in_system) ==
    total_in_system >= cfg.num_servers + cfg.max_queue_size

\* the rejection branch without its 'return': the rejected job goes on to
\* request a slot
LimitedQueue_process_job_reject_no_return ==
    /\ cfg.variant = "LimitedQueue"
    /\ Fires("Initialize", "job")
    /\ Len(users) + Len(queue) >= cfg.num_servers + cfg.max_queue_size
    /\ LET p == Cur.who[2]
           j == [jobs[p] EXCEPT !.was_rejected = TRUE,
                                !.rejection_reason = "queue_full"]
       IN
         /\ now' = Cur.time
         /\ jobs' = [jobs EXCEPT ![p] = j]
         /\ stats' = [stats EXCEPT !.total_arrivals = @ + 1,
                                   !.total_rejections = @ + 1,
                                   !.rejections_queue_full = @ + 1]
         /\ log' = Append(log,
                     [log_event(Cur.time, "rejection", j, Len(queue))
                        EXCEPT !.rejection_reason = "queue_full",
                               !.in_system = Len(users) + Len(queue)])
         /\ RequestAndWait(p)
         /\ procs' = [procs EXCEPT ![p].pc = "request"]
    /\ UNCHANGED << cfg, state, custom_queue, Job_id_counter, gens, rng, run_no,
                    first_log, pq_call,
                    last_call, issued >>

\* arrival, system full: the job is rejected and the process returns
LimitedQueue_process_job_reject ==
    /\ cfg.variant = "LimitedQueue"
    /\ Fires("Initialize", "job")
    /\ LimitedQueue_is_full(get_total_in_system)
    /\ LET p == Cur.who[2]
           j == [jobs[p] EXCEPT !.was_rejected = TRUE,
                                !.rejection_reason = "queue_full"]
       IN
         /\ now' = Cur.time
         /\ jobs' = [jobs EXCEPT ![p] = j]
         /\ stats' = [stats EXCEPT !.total_arrivals = @ + 1,
                                   !.total_rejections = @ + 1,
                                   !.rejections_queue_full = @ + 1]
         /\ log' = Append(log,
                     [log_event(Cur.time, "rejection", j, get_queue_length)
                        EXCEPT !.rejection_reason = "queue_full",
                               !.in_system = get_total_in_system])
         /\ evq' = Rest
         /\ eid' = eid + 1
         /\ procs' = [procs EXCEPT ![p].pc = "done"]
    /\ UNCHANGED << cfg, state, users, queue, custom_queue, Job_id_counter, gens,
                    rng, run_no, first_log, pq_call,
                    last_call, issued >>

\* arrival, room left: request a slot and wait for it
LimitedQueue_process_job_request_uncounted ==
    /\ cfg.variant = "LimitedQueue"
    /\ Fires("Initialize", "job")
    /\ ~LimitedQueue_is_full(get_total_in_system)
    /\ now' = Cur.time
    /\ RequestAndWait(Cur.who[2])
    /\ procs' = [procs EXCEPT ![Cur.who[2]].pc = "request"]
    /\ UNCHANGED << cfg, state, custom_queue, jobs, Job_id_counter, gens, log,
                    stats, rng, run_no, first_log, pq_call,
                    last_call, issued >>

LimitedQueue_process_job_request ==
    /\ cfg.variant = "LimitedQueue"
    /\ Fires("Initialize", "job")
    /\ ~LimitedQueue_is_full(get_total_in_system)
    /\ now' = Cur.time
    /\ stats' = [stats EXCEPT !.total_arrivals = @ + 1]
    /\ RequestAndWait(Cur.who[2])
    /\ procs' = [procs EXCEPT ![Cur.who[2]].pc = "request"]
    /\ UNCHANGED << cfg, state, custom_queue, jobs, Job_id_counter, gens, log,
                    rng, run_no, first_log, pq_call,
                    last_call, issued >>

\* the request is granted: start of service
LimitedQueue_process_job_start ==
    /\ cfg.variant = "LimitedQueue"
    /\ Fires("Request", "job")
    /\ LET p == Cur.who[2] IN
       \E st \in Durations :
         /\ random_draw(Durations, st, 0)
         /\ now' = Cur.time
         /\ jobs' = [jobs EXCEPT ![p].start_time = Cur.time,
                                 ![p].service_time = st]
         /\ log' = Append(log, log_event(Cur.time, "start_service", jobs[p],
                                         get_queue_length))
         /\ evq' = Push(Rest, Event(Cur.time + st, NORMAL, eid, "Timeout", <<"job", p>>))
         /\ eid' = eid + 1
         /\ procs' = [procs EXCEPT ![p].pc = "service"]
         /\ rng' = rng_after(<<st>>)
    /\ UNCHANGED << cfg, state, users, queue, custom_queue, Job_id_counter, gens,
                    stats, run_no, first_log, pq_call,
                    last_call, issued >>

\* the service timeout fired: end of service, release of the slot
LimitedQueue_process_job_end ==
    /\ cfg.variant = "LimitedQueue"
    /\ Fires("Timeout", "job")
    /\ LET p == Cur.who[2]
           j == [jobs[p] EXCEPT !.end_time = Cur.time]
       IN
         /\ now' = Cur.time
         /\ jobs' = [jobs EXCEPT ![p] = j]
         /\ stats' = [stats EXCEPT !.jobs_completed = @ + 1]
         /\ log' = Append(log,
                     [log_event(Cur.time, "end_service", j, get_queue_length)
                        EXCEPT !.service_time = j.service_time,
                               !.waiting_time = get_waiting_time(j),
                               !.response_time = get_response_time(j)])
         /\ ReleaseAndReturn(p)
         /\ procs' = [procs EXCEPT ![p].pc = "done"]
    /\ UNCHANGED << cfg, state, queue, custom_queue, Job_id_counter, gens, rng,
                    run_no, first_log, pq_call,
                    last_call, issued >>

----------------------------------------------------------------------------
(* LossSystem *)

\* an admission test that never rejects
LossSystem_is_full_never(count) == FALSE

\* the admission test with '>' written for '>='
LossSystem_is_full_strict(count) == count > cfg.num_servers

\* the admission test of LossSystem.process_job
LossSystem_is_full(count) == count >= cfg.num_servers

\* a rejection that logs the record but does not count it
LossSystem_process_job_reject_uncounted ==
    /\ cfg.variant = "LossSystem"
    /\ Fires("Initialize", "job")
    /\ LossSystem_is_full(Len(users))
    /\ LET p == Cur.who[2]
           j == [jobs[p] EXCEPT !.was_rejected = TRUE,
                                !.rejection_reason = "servers_full"]
       IN
         /\ now' = Cur.time
         /\ jobs' = [jobs EXCEPT ![p] = j]
         /\ stats' = [stats EXCEPT !.total_arrivals = @ + 1]
         /\ log' = Append(log,
                     [log_event(Cur.time, "rejection", j, 0)
                        EXCEPT !.rejection_reason = "servers_full",
                               !.in_system = Len(users)])
         /\ evq' = Rest
         /\ eid' = eid + 1
         /\ procs' = [procs EXCEPT ![p].pc = "done"]
    /\ UNCHANGED << cfg, state, users, queue, custom_queue, Job_id_counter, gens,
                    rng, run_no, first_log, pq_call,
                    last_call, issued >>

LossSystem_process_job_reject ==
    /\ cfg.variant = "LossSystem"
    /\ Fires("Initialize", "job")
    /\ LossSystem_is_full(Len(users))
    /\ LET p == Cur.who[2]
           j == [jobs[p] EXCEPT !.was_rejected = TRUE,
                                !.rejection_reason = "servers_full"]
       IN
         /\ now' = Cur.time
         /\ jobs' = [jobs EXCEPT ![p] = j]
         /\ stats' = [stats EXCEPT !.total_arrivals = @ + 1,
                                   !.total_rejections = @ + 1]
         /\ log' = Append(log,
                     [log_event(Cur.time, "rejection", j, 0)
                        EXCEPT !.rejection_reason = "servers_full",
                               !.in_system = Len(users)])
         /\ evq' = Rest
         /\ eid' = eid + 1
         /\ procs' = [procs EXCEPT ![p].pc = "done"]
    /\ UNCHANGED << cfg, state, users, queue, custom_queue, Job_id_counter, gens,
                    rng, run_no, first_log, pq_call,
                    last_call, issued >>

LossSystem_process_job_request ==
    /\ cfg.variant = "LossSystem"
    /\ Fires("Initialize", "job")
    /\ ~LossSystem_is_full(Len(users))
    /\ now' = Cur.time
    /\ stats' = [stats EXCEPT !.total_arrivals = @ + 1]
    /\ RequestAndWait(Cur.who[2])
    /\ procs' = [procs EXCEPT ![Cur.who[2]].pc = "request"]
    /\ UNCHANGED << cfg, state, custom_queue, jobs, Job_id_counter, gens, log,
                    rng, run_no, first_log, pq_call,
                    last_call, issued >>

LossSystem_process_job_start ==
    /\ cfg.variant = "LossSystem"
    /\ Fires("Request", "job")
    /\ LET p == Cur.who[2] IN
       \E st \in Durations :
         /\ random_draw(Durations, st, 0)
         /\ now' = Cur.time
         /\ jobs' = [jobs EXCEPT ![p].start_time = Cur.time,
                                 ![p].service_time = st]
         /\ log' = Append(log, log_event(Cur.time, "start_service", jobs[p], 0))
         /\ evq' = Push(Rest, Event(Cur.time + st, NORMAL, eid, "Timeout", <<"job", p>>))
         /\ eid' = eid + 1
         /\ procs' = [procs EXCEPT ![p].pc = "service"]
         /\ rng' = rng_after(<<st>>)
    /\ UNCHANGED << cfg, state, users, queue, custom_queue, Job_id_counter, gens,
                    stats, run_no, first_log, pq_call,
                    last_call, issued >>

LossSystem_process_job_end ==
    /\ cfg.variant = "LossSystem"
    /\ Fires("Timeout", "job")
    /\ LET p == Cur.who[2]
           j == [jobs[p] EXCEPT !.end_time = Cur.time]
       IN
         /\ now' = Cur.time
         /\ jobs' = [jobs EXCEPT ![p] = j]
         /\ stats' = [stats EXCEPT !.jobs_completed = @ + 1]
         /\ log' = Append(log,
                     [log_event(Cur.time, "end_service", j, 0)
                        EXCEPT !.service_time = j.service_time,
                               !.response_time = j.service_time])
         /\ ReleaseAndReturn(p)
         /\ procs' = [procs EXCEPT ![p].pc = "done"]
    /\ UNCHANGED << cfg, state, queue, custom_queue, Job_id_counter, gens, rng,
                    run_no, first_log, pq_call,
                    last_call, issued >>

----------------------------------------------------------------------------
(* PriorityQueue: the queue holds Job objects, here indices into jobs *)

\* Python truthiness of 'job.service_time': None and 0.0 are both false
Truthy(st) == st # None /\ st # 0

\* 'job.service_time if job.service_time else float("inf")' as a sort key:
\* <<0, t>> for a finite time t, <<1, 0>> for infinity
sjf_time(j) == IF Truthy(j.service_time) THEN <<0, j.service_time>> ELSE <<1, 0>>

\* a < b on two such keys (inf < inf is false)
sjf_less(a, b) == a[1] < b[1] \/ (a[1] = 0 /\ b[1] = 0 /\ a[2] < b[2])

\* the scan of get_next_sjf from position i with the running minimum at min_idx
RECURSIVE sjf_scan(_, _, _)
sjf_scan(q, i, min_idx) ==
    IF i > Len(q) THEN min_idx
    ELSE IF sjf_less(sjf_time(jobs[q[i]]), sjf_time(jobs[q[min_idx]]))
         THEN sjf_scan(q, i + 1, i)
         ELSE sjf_scan(q, i + 1, min_idx)

\* pop() written for pop(0): the last position
fifo_index_last(q) == Len(q)

\* position popped by get_next_fifo
fifo_index_second(q) == IF Len(q) >= 2 THEN 2 ELSE 1   \* the second in line
fifo_index(q) == 1

\* position popped by get_next_sjf
sjf_index(q) == sjf_scan(q, 1, 1)

\* the priority order ignored: the head of the queue
priority_index_head(q, priority_order) == 1

\* position popped by get_next_priority: the first job of the first type of
\* priority_order that has a job in the queue, else position 0 (here 1)
priority_index(q, priority_order) ==
    LET hits(t) == {i \in 1..Len(q) : jobs[q[i]].job_type = t}
        ks == {k \in 1..Len(priority_order) : hits(priority_order[k]) # {}}
    IN IF ks = {} THEN 1
       ELSE LET k == CHOOSE x \in ks : \A y \in ks : x <= y
                h == hits(priority_order[k])
            IN CHOOSE i \in h : \A j \in h : i <= j

PriorityOrder == <<"ING", "PREPA">>

\* PriorityQueue.add
\* an add that drops the job when others wait
add_if_empty(q, j) == IF q = <<>> THEN <<j>> ELSE q

add(q, j) == Append(q, j)

\* the get_next_* method the policy of the server calls
policy_op ==
    IF cfg.scheduling_policy = "SJF" THEN "sjf"
    ELSE IF cfg.scheduling_policy = "PRIORITY" THEN "priority"
    ELSE "fifo"

\* position the policy of the server pops
\* a dispatch that knows the name LIFO
policy_index_by_name(q) ==
    IF cfg.scheduling_policy = "SJF" THEN sjf_index(q)
    ELSE IF cfg.scheduling_policy = "PRIORITY" THEN priority_index(q, PriorityOrder)
    ELSE IF cfg.scheduling_policy = "LIFO" THEN Len(q)
    ELSE fifo_index(q)

policy_index(q) ==
    IF cfg.scheduling_policy = "SJF" THEN sjf_index(q)
    ELSE IF cfg.scheduling_policy = "PRIORITY" THEN priority_index(q, PriorityOrder)
    ELSE fifo_index(q)

----------------------------------------------------------------------------
(* GatingController *)

\* the intervals read as closed at both ends
is_open_closed_end(t) ==
    \A k \in 1..Len(cfg.gating_intervals) :
        ~(cfg.gating_intervals[k][1] <= t /\ t <= cfg.gating_intervals[k][2])

is_open(t) ==
    \A k \in 1..Len(cfg.gating_intervals) :
        ~(cfg.gating_intervals[k][1] <= t /\ t < cfg.gating_intervals[k][2])

\* a wake-up one tick after the end of the covering interval
next_open_late(t) ==
    LET cover == {k \in 1..Len(cfg.gating_intervals) :
                    cfg.gating_intervals[k][1] <= t /\ t < cfg.gating_intervals[k][2]}
    IN cfg.gating_intervals[CHOOSE k \in cover : \A m \in cover : k <= m][2] + 1

\* wait_until_open: the end of the first interval that covers t
next_open(t) ==
    LET cover == {k \in 1..Len(cfg.gating_intervals) :
                    cfg.gating_intervals[k][1] <= t /\ t < cfg.gating_intervals[k][2]}
    IN cfg.gating_intervals[CHOOSE k \in cover : \A m \in cover : k <= m][2]

\* the wait_until_open process is started or woken while the gate is closed
wait_until_open_sleep ==
    /\ state = "running"
    /\ evq # <<>>
    /\ Cur.kind \in {"Initialize", "Timeout"}
    /\ Cur.who[1] = "gate"
    /\ ~is_open(Cur.time)
    /\ now' = Cur.time
    /\ evq' = Push(Rest, Event(next_open(Cur.time), NORMAL, eid, "Timeout", Cur.who))
    /\ eid' = eid + 1
    /\ UNCHANGED << cfg, state, users, queue, custom_queue, jobs, Job_id_counter,
                    procs, gens, log, stats, rng, run_no, first_log, pq_call,
                    last_call, issued >>

\* the loop condition left out: wait_until_open returns as soon as it runs
wait_until_open_return_at_once ==
    /\ state = "running"
    /\ evq # <<>>
    /\ Cur.kind \in {"Initialize", "Timeout"}
    /\ Cur.who[1] = "gate"
    /\ now' = Cur.time
    /\ evq' = Push(Rest, Event(Cur.time, NORMAL, eid, "Process", Cur.who))
    /\ eid' = eid + 1
    /\ UNCHANGED << cfg, state, users, queue, custom_queue, jobs, Job_id_counter,
                    procs, gens, log, stats, rng, run_no, first_log, pq_call,
                    last_call, issued >>

\* the gate is open: wait_until_open returns
wait_until_open_return ==
    /\ state = "running"
    /\ evq # <<>>
    /\ Cur.kind \in {"Initialize", "Timeout"}
    /\ Cur.who[1] = "gate"
    /\ is_open(Cur.time)
    /\ now' = Cur.time
    /\ evq' = Push(Rest, Event(Cur.time, NORMAL, eid, "Process", Cur.who))
    /\ eid' = eid + 1
    /\ UNCHANGED << cfg, state, users, queue, custom_queue, jobs, Job_id_counter,
                    procs, gens, log, stats, rng, run_no, first_log, pq_call,
                    last_call, issued >>

----------------------------------------------------------------------------
(* GatingController.is_open called directly, as tests/test_regulation.py    *)
(* does: a controller over any list of up to two intervals, asked about a   *)
(* given time or, with no argument, about env.now                            *)

GateTimes == 0..MaxGateTime

GateIntervals == {<<s, e>> : s \in GateTimes, e \in GateTimes}

GatingConfigs ==
    {[Config("GatingController", 1, 0, Horizon)
        EXCEPT !.populations = <<>>, !.gating_intervals = g] :
       g \in {<<>>} \cup {<<a>> : a \in GateIntervals}
                   \cup {<<a, b>> : a \in GateIntervals, b \in GateIntervals}}

InitGating ==
    /\ \E c \in GatingConfigs : Constructed(c)
    /\ rng = Random(FALSE)
    /\ Idle

\* 'time if time is not None else self.env.now'
check_time(time) == IF time # None THEN time ELSE now

GatingController_is_open ==
    /\ cfg.variant = "GatingController"
    /\ \E time \in GateTimes \cup {None} :
         last_call' = [op |-> "is_open", arg |-> time,
                       result |-> is_open(check_time(time))]
    /\ UNCHANGED << cfg, state, now, evq, eid, users, queue, custom_queue, jobs,
                    Job_id_counter, procs, gens, log, stats, rng, run_no,
                    first_log, pq_call, issued >>

\* direct calls of is_open on one controller
SpecGating == InitGating /\ [][GatingController_is_open]_vars

----------------------------------------------------------------------------
(* HeterogeneousServer.process_job *)

\* arrival while the gate is closed: start wait_until_open and wait for it
\* an arrival recorded and counted before the wait for the gate
HeterogeneousServer_process_job_gate_recorded ==
    /\ cfg.variant = "HeterogeneousServer"
    /\ Fires("Initialize", "job")
    /\ cfg.gating_intervals # <<>>
    /\ ~is_open(Cur.time)
    /\ now' = Cur.time
    /\ evq' = Push(Rest, Event(Cur.time, URGENT, eid, "Initialize", <<"gate", Cur.who[2]>>))
    /\ eid' = eid + 1
    /\ procs' = [procs EXCEPT ![Cur.who[2]].pc = "gate"]
    /\ log' = Append(log, log_event(Cur.time, "arrival", jobs[Cur.who[2]],
                                    Len(custom_queue)))
    /\ UNCHANGED << cfg, state, users, queue, custom_queue, jobs, Job_id_counter,
                    gens, stats, rng, run_no, first_log, pq_call,
                    last_call, issued >>

HeterogeneousServer_process_job_gate ==
    /\ cfg.variant = "HeterogeneousServer"
    /\ Fires("Initialize", "job")
    /\ cfg.gating_intervals # <<>>
    /\ ~is_open(Cur.time)
    /\ now' = Cur.time
    /\ evq' = Push(Rest, Event(Cur.time, URGENT, eid, "Initialize", <<"gate", Cur.who[2]>>))
    /\ eid' = eid + 1
    /\ procs' = [procs EXCEPT ![Cur.who[2]].pc = "gate"]
    /\ UNCHANGED << cfg, state, users, queue, custom_queue, jobs, Job_id_counter,
                    gens, log, stats, rng, run_no, first_log, pq_call,
                    last_call, issued >>

\* the gate is open (at arrival, or wait_until_open returned): record the
\* arrival, draw the service time, enqueue the job, request a slot
HeterogeneousServer_process_job_enqueue ==
    /\ cfg.variant = "HeterogeneousServer"
    /\ state = "running"
    /\ evq # <<>>
    /\ \/ /\ Cur.kind = "Initialize" /\ Cur.who[1] = "job"
          /\ (cfg.gating_intervals = <<>> \/ is_open(Cur.time))
       \/ Cur.kind = "Process" /\ Cur.who[1] = "gate"
    /\ LET p == Cur.who[2] IN
       \E st \in Durations :
         /\ random_draw(Durations, st, 0)
         /\ now' = Cur.time
         /\ stats' = [stats EXCEPT !.arrivals[jobs[p].job_type] = @ + 1]
         /\ log' = Append(log, log_event(Cur.time, "arrival", jobs[p],
                                         Len(custom_queue)))
         /\ jobs' = [jobs EXCEPT ![p].service_time = st]
         /\ custom_queue' = add(custom_queue, p)
         /\ pq_call' = [pq_call EXCEPT !.added = Append(@, p)]
         /\ RequestAndWait(p)
         /\ procs' = [procs EXCEPT ![p].pc = "request"]
         /\ rng' = rng_after(<<st>>)
    /\ UNCHANGED << cfg, state, Job_id_counter, gens, run_no, first_log,
                    last_call, issued >>

\* the request is granted: dequeue a job according to the policy and start
\* it; when the policy yields None the process returns (and releases)
HeterogeneousServer_process_job_start ==
    /\ cfg.variant = "HeterogeneousServer"
    /\ Fires("Request", "job")
    /\ now' = Cur.time
    /\ LET p == Cur.who[2] IN
       IF custom_queue = <<>>
       THEN /\ ReleaseAndReturn(p)
            /\ procs' = [procs EXCEPT ![p].pc = "done"]
            /\ pq_call' = [pq_call EXCEPT !.op = policy_op, !.before = <<>>,
                                          !.result = None]
            /\ UNCHANGED << custom_queue, jobs, log >>
       ELSE LET k == policy_index(custom_queue)
                c == custom_queue[k]
            IN
              /\ custom_queue' = RemoveAt(custom_queue, k)
              /\ pq_call' = [pq_call EXCEPT !.op = policy_op,
                                            !.before = custom_queue,
                                            !.result = c]
              /\ jobs' = [jobs EXCEPT ![c].start_time = Cur.time]
              /\ log' = Append(log,
                          [log_event(Cur.time, "start_service", jobs[c],
                                     Len(custom_queue) - 1)
                             EXCEPT !.service_time = jobs[c].service_time])
              /\ evq' = Push(Rest, Event(Cur.time + jobs[c].service_time, NORMAL,
                                         eid, "Timeout", <<"job", p>>))
              /\ eid' = eid + 1
              /\ procs' = [procs EXCEPT ![p].pc = "service", ![p].current_job = c]
              /\ users' = users
    /\ UNCHANGED << cfg, state, queue, Job_id_counter, gens, stats, rng,
                    run_no, first_log, last_call, issued >>

\* the service timeout fired: end of service of current_job, release
HeterogeneousServer_process_job_end ==
    /\ cfg.variant = "HeterogeneousServer"
    /\ Fires("Timeout", "job")
    /\ LET p == Cur.who[2]
           c == procs[p].current_job
           j == [jobs[c] EXCEPT !.end_time = Cur.time]
       IN
         /\ now' = Cur.time
         /\ jobs' = [jobs EXCEPT ![c] = j]
         /\ stats' = [stats EXCEPT !.completed[j.job_type] = @ + 1]
         /\ log' = Append(log,
                     [log_event(Cur.time, "end_service", j, Len(custom_queue))
                        EXCEPT !.service_time = j.service_time,
                               !.waiting_time = get_waiting_time(j),
                               !.response_time = get_response_time(j)])
         /\ ReleaseAndReturn(p)
         /\ procs' = [procs EXCEPT ![p].pc = "done"]
    /\ UNCHANGED << cfg, state, queue, custom_queue, Job_id_counter, gens, rng,
                    run_no, first_log, pq_call,
                    last_call, issued >>

----------------------------------------------------------------------------
(* ReliableServer.process_with_backup and the backup strategies *)

\* a conditional backup that still backs up when the queue is at the threshold
should_backup_at_threshold(u) ==
    IF cfg.backup_strategy = "systematic" THEN TRUE
    ELSE IF cfg.backup_strategy = "random" THEN u
    ELSE Len(queue) <= cfg.threshold

\* BackupStrategy.should_backup: u is the outcome of 'random.random() < p',
\* read by RandomBackup only; ConditionalBackup reads the queue length
should_backup(u) ==
    IF cfg.backup_strategy = "systematic" THEN TRUE
    ELSE IF cfg.backup_strategy = "random" THEN u
    ELSE Len(queue) < cfg.threshold

\* should_backup called directly, as tests/test_reliability.py does, on a
\* strategy with any threshold, with jobs created beforehand and any number
\* of requests waiting (what get_queue_length returns)
Thresholds == 0..(MaxJobs + 1)

BackupConfigs ==
    {[Config("BackupStrategy", 1, 0, Horizon)
        EXCEPT !.populations = <<>>, !.backup_strategy = b, !.threshold = t] :
       b \in Strategies, t \in Thresholds}

InitBackup ==
    /\ cfg \in BackupConfigs
    /\ state = "built"
    /\ now = 0
    /\ evq = <<>>
    /\ eid = 0
    /\ users = <<>>
    /\ \E n \in 0..MaxJobs : queue = [k \in 1..n |-> k]
    /\ custom_queue = <<>>
    /\ jobs = [i \in 1..MaxJobs |-> Job(i - 1, 0, "ING")]
    /\ Job_id_counter = MaxJobs
    /\ procs = <<>>
    /\ gens = <<>>
    /\ log = <<>>
    /\ stats = InitStats
    /\ rng = Random(FALSE)
    /\ run_no = 1
    /\ first_log = <<>>
    /\ pq_call = NoCall
    /\ last_call = NoDirectCall
    /\ issued = << [i \in 1..MaxJobs |-> i - 1] >>

\* strategy.should_backup(job)
BackupStrategy_should_backup ==
    /\ cfg.variant = "BackupStrategy"
    /\ \E j \in 1..Len(jobs), u \in BOOLEAN :
         last_call' = [op |-> "should_backup", arg |-> jobs[j].id,
                       result |-> should_backup(u)]
    /\ UNCHANGED << cfg, state, now, evq, eid, users, queue, custom_queue, jobs,
                    Job_id_counter, procs, gens, log, stats, rng, run_no,
                    first_log, pq_call, issued >>

\* direct calls of should_backup on one strategy
SpecBackup == InitBackup /\ [][BackupStrategy_should_backup]_vars

ReliableServer_process_request ==
    /\ cfg.variant = "ReliableServer"
    /\ Fires("Initialize", "job")
    /\ now' = Cur.time
    /\ RequestAndWait(Cur.who[2])
    /\ procs' = [procs EXCEPT ![Cur.who[2]].pc = "request"]
    /\ UNCHANGED << cfg, state, custom_queue, jobs, Job_id_counter, gens, log,
                    stats, rng, run_no, first_log, pq_call,
                    last_call, issued >>

\* a backup phase that makes a request of its own for the backup
ReliableServer_process_backup_start_second_request ==
    /\ cfg.variant = "ReliableServer"
    /\ Fires("Request", "job")
    /\ LET p == Cur.who[2]
           isRandom == cfg.backup_strategy = "random"
           r == Request(p)
       IN
       \E u \in BOOLEAN, bt \in BackupTimes :
         /\ IF isRandom THEN random_draw(BOOLEAN, u, 0) ELSE u = TRUE
         /\ should_backup(u)
         /\ random_draw(BackupTimes, bt, IF isRandom THEN 1 ELSE 0)
         /\ now' = Cur.time
         /\ jobs' = [jobs EXCEPT ![p].start_time = Cur.time]
         /\ log' = Append(log,
                     [log_event(Cur.time, "backup_start", jobs[p], Len(queue))
                        EXCEPT !.backup_time = bt])
         /\ users' = r.users
         /\ queue' = r.queue
         /\ evq' = PushAll(Push(Rest, Event(Cur.time + bt, NORMAL, eid, "Timeout",
                                             <<"job", p>>)),
                           GrantEvents(r.granted, eid + 1))
         /\ eid' = eid + 1 + Len(r.granted)
         /\ procs' = [procs EXCEPT ![p].pc = "backup", ![p].needs_backup = TRUE,
                                   ![p].backup_time = bt]
         /\ rng' = rng_after(IF isRandom THEN <<u, bt>> ELSE <<bt>>)
    /\ UNCHANGED << cfg, state, custom_queue, Job_id_counter, gens,
                    stats, run_no, first_log, pq_call,
                    last_call, issued >>

\* the request is granted and a backup is decided: backup phase
ReliableServer_process_backup_start ==
    /\ cfg.variant = "ReliableServer"
    /\ Fires("Request", "job")
    /\ LET p == Cur.who[2]
           isRandom == cfg.backup_strategy = "random"
       IN
       \E u \in BOOLEAN, bt \in BackupTimes :
         /\ IF isRandom THEN random_draw(BOOLEAN, u, 0) ELSE u = TRUE
         /\ should_backup(u)
         /\ random_draw(BackupTimes, bt, IF isRandom THEN 1 ELSE 0)
         /\ now' = Cur.time
         /\ jobs' = [jobs EXCEPT ![p].start_time = Cur.time]
         /\ log' = Append(log,
                     [log_event(Cur.time, "backup_start", jobs[p], Len(queue))
                        EXCEPT !.backup_time = bt])
         /\ evq' = Push(Rest, Event(Cur.time + bt, NORMAL, eid, "Timeout", <<"job", p>>))
         /\ eid' = eid + 1
         /\ procs' = [procs EXCEPT ![p].pc = "backup", ![p].needs_backup = TRUE,
                                   ![p].backup_time = bt]
         /\ rng' = rng_after(IF isRandom THEN <<u, bt>> ELSE <<bt>>)
    /\ UNCHANGED << cfg, state, users, queue, custom_queue, Job_id_counter, gens,
                    stats, run_no, first_log, pq_call,
                    last_call, issued >>

\* the request is granted and no backup is decided: service starts at once
ReliableServer_process_start ==
    /\ cfg.variant = "ReliableServer"
    /\ Fires("Request", "job")
    /\ LET p == Cur.who[2]
           isRandom == cfg.backup_strategy = "random"
       IN
       \E u \in BOOLEAN, st \in Durations :
         /\ IF isRandom THEN random_draw(BOOLEAN, u, 0) ELSE u = FALSE
         /\ ~should_backup(u)
         /\ random_draw(Durations, st, IF isRandom THEN 1 ELSE 0)
         /\ now' = Cur.time
         /\ jobs' = [jobs EXCEPT ![p].start_time = Cur.time,
                                 ![p].service_time = st]
         /\ log' = Append(log,
                     [log_event(Cur.time, "start_service", jobs[p], Len(queue))
                        EXCEPT !.backup_time = 0])
         /\ evq' = Push(Rest, Event(Cur.time + st, NORMAL, eid, "Timeout", <<"job", p>>))
         /\ eid' = eid + 1
         /\ procs' = [procs EXCEPT ![p].pc = "service"]
         /\ rng' = rng_after(IF isRandom THEN <<u, st>> ELSE <<st>>)
    /\ UNCHANGED << cfg, state, users, queue, custom_queue, Job_id_counter, gens,
                    stats, run_no, first_log, pq_call,
                    last_call, issued >>

\* the start of service logged before the end of the backup
ReliableServer_process_backup_end_late ==
    /\ cfg.variant = "ReliableServer"
    /\ Fires("Timeout", "job")
    /\ procs[Cur.who[2]].pc = "backup"
    /\ LET p == Cur.who[2] IN
       \E st \in Durations :
         /\ random_draw(Durations, st, 0)
         /\ now' = Cur.time
         /\ stats' = [stats EXCEPT !.jobs_backed_up = @ + 1]
         /\ jobs' = [jobs EXCEPT ![p].service_time = st]
         /\ log' = log \o
                   << [log_event(Cur.time, "start_service", jobs[p], Len(queue))
                         EXCEPT !.backup_time = procs[p].backup_time],
                      log_event(Cur.time, "backup_end", jobs[p], Len(queue)) >>
         /\ evq' = Push(Rest, Event(Cur.time + st, NORMAL, eid, "Timeout", <<"job", p>>))
         /\ eid' = eid + 1
         /\ procs' = [procs EXCEPT ![p].pc = "service"]
         /\ rng' = rng_after(<<st>>)
    /\ UNCHANGED << cfg, state, users, queue, custom_queue, Job_id_counter, gens,
                    run_no, first_log, pq_call,
                    last_call, issued >>

\* the backup timeout fired: end of backup, service starts
ReliableServer_process_backup_end ==
    /\ cfg.variant = "ReliableServer"
    /\ Fires("Timeout", "job")
    /\ procs[Cur.who[2]].pc = "backup"
    /\ LET p == Cur.who[2] IN
       \E st \in Durations :
         /\ random_draw(Durations, st, 0)
         /\ now' = Cur.time
         /\ stats' = [stats EXCEPT !.jobs_backed_up = @ + 1]
         /\ jobs' = [jobs EXCEPT ![p].service_time = st]
         /\ log' = log \o
                   << log_event(Cur.time, "backup_end", jobs[p], Len(queue)),
                      [log_event(Cur.time, "start_service", jobs[p], Len(queue))
                         EXCEPT !.backup_time = procs[p].backup_time] >>
         /\ evq' = Push(Rest, Event(Cur.time + st, NORMAL, eid, "Timeout", <<"job", p>>))
         /\ eid' = eid + 1
         /\ procs' = [procs EXCEPT ![p].pc = "service"]
         /\ rng' = rng_after(<<st>>)
    /\ UNCHANGED << cfg, state, users, queue, custom_queue, Job_id_counter, gens,
                    run_no, first_log, pq_call,
                    last_call, issued >>

\* the service timeout fired: end of processing, release
ReliableServer_process_end ==
    /\ cfg.variant = "ReliableServer"
    /\ Fires("Timeout", "job")
    /\ procs[Cur.who[2]].pc = "service"
    /\ LET p == Cur.who[2]
           j == [jobs[p] EXCEPT !.end_time = Cur.time]
       IN
         /\ now' = Cur.time
         /\ jobs' = [jobs EXCEPT ![p] = j]
         /\ stats' = [stats EXCEPT !.jobs_processed = @ + 1]
         /\ log' = Append(log,
                     [log_event(Cur.time, "end_service", j, Len(queue))
                        EXCEPT !.service_time = j.service_time,
                               !.backup_time = procs[p].backup_time,
                               !.waiting_time = get_waiting_time(j),
                               !.response_time = get_response_time(j)])
         /\ ReleaseAndReturn(p)
         /\ procs' = [procs EXCEPT ![p].pc = "done"]
    /\ UNCHANGED << cfg, state, queue, custom_queue, Job_id_counter, gens, rng,
                    run_no, first_log, pq_call,
                    last_call, issued >>

----------------------------------------------------------------------------
(* PriorityQueue called directly, as tests/test_regulation.py does: jobs are *)
(* built by the caller with a type and a service time, added, and taken out *)

ServiceTimes == Durations \cup {None}

InitPriorityQueue ==
    /\ Constructed(PriorityQueueConfig)
    /\ rng = Random(FALSE)
    /\ Idle

PriorityQueue_add ==
    /\ cfg.variant = "PriorityQueue"
    /\ Len(jobs) < MaxJobs
    /\ \E ty \in JobTypes, st \in ServiceTimes :
         /\ jobs' = Append(jobs, [Job(Job_id_counter, Len(jobs), ty)
                                    EXCEPT !.service_time = st])
         /\ Job_id_counter' = Job_id_counter + 1
         /\ issued' = [issued EXCEPT ![Len(issued)] = Append(@, Job_id_counter)]
         /\ custom_queue' = add(custom_queue, Len(jobs) + 1)
         /\ pq_call' = [pq_call EXCEPT !.op = "add",
                                       !.added = Append(@, Len(jobs) + 1)]
    /\ UNCHANGED << cfg, state, now, evq, eid, users, queue, procs, gens, log,
                    stats, rng, run_no, first_log, last_call >>

\* a get_next_* method that pops position k of a non-empty queue and returns
\* None on an empty one
GetNext(op, k) ==
    /\ pq_call' = [pq_call EXCEPT !.op = op, !.before = custom_queue,
                                  !.result = IF custom_queue = <<>> THEN None
                                             ELSE custom_queue[k]]
    /\ custom_queue' = IF custom_queue = <<>> THEN <<>>
                       ELSE RemoveAt(custom_queue, k)
    /\ UNCHANGED << cfg, state, now, evq, eid, users, queue, jobs,
                    Job_id_counter, procs, gens, log, stats, rng, run_no,
                    first_log, last_call, issued >>

PriorityQueue_get_next_fifo ==
    /\ cfg.variant = "PriorityQueue"
    /\ GetNext("fifo", fifo_index(custom_queue))

PriorityQueue_get_next_sjf ==
    /\ cfg.variant = "PriorityQueue"
    /\ GetNext("sjf", sjf_index(custom_queue))

PriorityQueue_get_next_priority ==
    /\ cfg.variant = "PriorityQueue"
    /\ GetNext("priority", priority_index(custom_queue, PriorityOrder))

NextPriorityQueue ==
    \/ PriorityQueue_add
    \/ PriorityQueue_get_next_fifo
    \/ PriorityQueue_get_next_sjf
    \/ PriorityQueue_get_next_priority

SpecPriorityQueue == InitPriorityQueue /\ [][NextPriorityQueue]_vars

----------------------------------------------------------------------------

\* the engine, the generators and the kernel
NextEngine ==
    \/ SimulationEngine_run
    \/ Environment_stop
    \/ generate_start
    \/ generate_arrival
    \/ generate_stop
    \/ Release_processed

NextServer ==
    \/ Server_process_request
    \/ Server_process_start
    \/ Server_process_end

NextCapacity ==
    \/ LimitedQueue_process_job_reject
    \/ LimitedQueue_process_job_request
    \/ LimitedQueue_process_job_start
    \/ LimitedQueue_process_job_end
    \/ LossSystem_process_job_reject
    \/ LossSystem_process_job_request
    \/ LossSystem_process_job_start
    \/ LossSystem_process_job_end

NextRegulation ==
    \/ wait_until_open_sleep
    \/ wait_until_open_return
    \/ HeterogeneousServer_process_job_gate
    \/ HeterogeneousServer_process_job_enqueue
    \/ HeterogeneousServer_process_job_start
    \/ HeterogeneousServer_process_job_end

NextReliability ==
    \/ ReliableServer_process_request
    \/ ReliableServer_process_backup_start
    \/ ReliableServer_process_start
    \/ ReliableServer_process_backup_end
    \/ ReliableServer_process_end

Next ==
    \/ NextEngine
    \/ NextServer
    \/ NextCapacity
    \/ NextRegulation
    \/ NextPriorityQueue
    \/ NextReliability

\* one run of any scenario, or direct calls on a PriorityQueue
Spec == Init /\ [][Next]_vars

\* one run of a LimitedQueue or LossSystem scenario
SpecCapacity == InitCapacity /\ [][NextEngine \/ NextCapacity]_vars

\* runs of one Server scenario by engines built one after the other with one seed
SpecSeeded == InitSeeded /\ [][NextEngine \/ NextServer \/ SimulationEngine_init]_vars

----------------------------------------------------------------------------
(* Properties of the capacity variants (SpecCapacity) *)

\* C1: in a LimitedQueue with C servers and K waiting places, occupancy plus
\* waiting never exceeds C + K and occupancy never exceeds C, in every
\* reachable state (arrivals, grants and completions at one instant included)
C1_OccupancyBounded ==
    cfg.variant = "LimitedQueue" =>
        /\ Len(users) + Len(queue) <= cfg.num_servers + cfg.max_queue_size
        /\ Len(users) <= cfg.num_servers

\* a LimitedQueue filled to C + K with a job waiting, after it turned a job away
C1_FullWithWaiter ==
    /\ cfg.variant = "LimitedQueue"
    /\ Len(users) = cfg.num_servers
    /\ Len(queue) = cfg.max_queue_size
    /\ Len(queue) >= 1
    /\ stats.total_rejections >= 1

\* C2: in a LossSystem the wait queue of the resource is always empty, an
\* arriving job is rejected exactly when occupancy equals C at its arrival,
\* and a job that is not rejected holds a slot at once and starts at its
\* arrival instant
C2_LossNoWait ==
    [][cfg.variant = "LossSystem" =>
         /\ queue = <<>>
         /\ queue' = <<>>
         /\ Fires("Initialize", "job") =>
              LET p == Cur.who[2] IN
                /\ jobs'[p].was_rejected <=> Len(users) = cfg.num_servers
                /\ ~jobs'[p].was_rejected =>
                     /\ \E k \in 1..Len(users') : users'[k] = p
                     /\ now' = jobs[p].arrival_time
         /\ \A i \in 1..Len(jobs') :
              jobs'[i].start_time # None =>
                  jobs'[i].start_time = jobs'[i].arrival_time]_vars

\* a LossSystem with every server busy that rejected a job and started another
C2_RejectedAndServed ==
    /\ cfg.variant = "LossSystem"
    /\ Len(users) = cfg.num_servers
    /\ \E i \in 1..Len(jobs) : jobs[i].was_rejected
    /\ \E i \in 1..Len(jobs) : jobs[i].start_time # None

\* C3: LimitedQueue.process_job rejects the arriving job, with reason
\* queue_full, exactly when occupancy + waiting >= C + K at the arrival;
\* otherwise the job is granted a slot or enqueued, and a job that was admitted
\* is never rejected afterwards
C3_RejectIffFull ==
    [][cfg.variant = "LimitedQueue" =>
         /\ Fires("Initialize", "job") =>
              LET p == Cur.who[2]
                  full == Len(users) + Len(queue)
                              >= cfg.num_servers + cfg.max_queue_size
              IN
                /\ jobs'[p].was_rejected <=> full
                /\ full => jobs'[p].rejection_reason = "queue_full"
                /\ ~full =>
                     \/ \E k \in 1..Len(users') : users'[k] = p
                     \/ \E k \in 1..Len(queue') : queue'[k] = p
         /\ \A i \in 1..Len(jobs) :
              (procs[i].pc # "start" /\ ~jobs[i].was_rejected) =>
                  ~jobs'[i].was_rejected]_vars

\* a LimitedQueue that rejected a job and later admitted and started another
C3_RejectThenAdmit ==
    /\ cfg.variant = "LimitedQueue"
    /\ \E i, j \in 1..Len(jobs) :
         /\ i < j
         /\ jobs[i].was_rejected
         /\ jobs[i].rejection_reason = "queue_full"
         /\ jobs[j].start_time # None

\* C4 as stated: when run(horizon) returns on a LimitedQueue or LossSystem,
\* total_arrivals = jobs_completed + total_rejections
C4_AllAccounted ==
    (state = "stopped" /\ cfg.variant \in {"LimitedQueue", "LossSystem"}) =>
        stats.total_arrivals = stats.jobs_completed + stats.total_rejections

\* C4 amended: when run(horizon) returns, every job created was counted as an
\* arrival, and total_arrivals = jobs_completed + total_rejections + the jobs
\* that still hold a slot or wait for one at the horizon
C4_AccountedWithPending ==
    (state = "stopped" /\ cfg.variant \in {"LimitedQueue", "LossSystem"}) =>
        /\ stats.total_arrivals = Len(jobs)
        /\ stats.total_arrivals = stats.jobs_completed + stats.total_rejections
                                      + Len(users) + Len(queue)

\* run() returned with a completed job, a rejected job and a job still inside
C4_PendingAtHorizon ==
    /\ state = "stopped"
    /\ cfg.variant \in {"LimitedQueue", "LossSystem"}
    /\ Len(users) + Len(queue) >= 1
    /\ stats.jobs_completed >= 1
    /\ stats.total_rejections >= 1

\* C6: no job is both rejected and started or ended; a rejected job has no
\* start_service or end_service record; a job with a rejection record stays
\* rejected
C6_RejectedExcludesService ==
    /\ \A i \in 1..Len(jobs) :
         jobs[i].was_rejected =>
             /\ jobs[i].start_time = None
             /\ jobs[i].end_time = None
             /\ \A k \in 1..Len(log) :
                  log[k].entity_id = jobs[i].id =>
                      log[k].event_type \notin {"start_service", "end_service"}
    /\ \A k \in 1..Len(log) :
         log[k].event_type = "rejection" =>
             \E i \in 1..Len(jobs) :
                 jobs[i].id = log[k].entity_id /\ jobs[i].was_rejected

\* a run with a rejected job and a job that arrived later and completed
C6_RejectedAndCompleted ==
    /\ \E i, j \in 1..Len(jobs) :
         /\ i < j
         /\ jobs[i].was_rejected
         /\ jobs[j].end_time # None
    /\ \E k \in 1..Len(log) : log[k].event_type = "rejection"

----------------------------------------------------------------------------
(* Properties of every variant (Spec) *)

\* C5: for every job of every variant, arrival_time <= start_time once
\* start_time is set, and once end_time is set start_time is set and
\* start_time <= end_time; waiting and response times are never negative
C5_TimesOrdered ==
    \A i \in 1..Len(jobs) :
        LET j == jobs[i] IN
          /\ j.start_time # None =>
                 /\ j.arrival_time <= j.start_time
                 /\ get_waiting_time(j) >= 0
          /\ j.end_time # None =>
                 /\ j.start_time # None
                 /\ j.start_time <= j.end_time
                 /\ get_response_time(j) >= 0

\* a gated HeterogeneousServer completed a job that waited and was served
\* for a positive time
C5_WaitedAndServed ==
    /\ cfg.variant = "HeterogeneousServer"
    /\ cfg.gating_intervals # <<>>
    /\ \E i \in 1..Len(jobs) :
         /\ jobs[i].end_time # None
         /\ jobs[i].arrival_time < jobs[i].start_time
         /\ jobs[i].start_time < jobs[i].end_time

\* C9: on a non-empty queue get_next_priority with order [ING, PREPA] returns
\* the ING job added first if an ING job waits, else the PREPA job added
\* first, else the job added first; so a HeterogeneousServer with policy
\* PRIORITY never starts a non-ING job while an ING job is in its queue
C9_PriorityOrder ==
    (pq_call.op = "priority" /\ pq_call.before # <<>>) =>
        LET b == pq_call.before
            waiting == {b[k] : k \in 1..Len(b)}
            age(x) == CHOOSE n \in 1..Len(pq_call.added) : pq_call.added[n] = x
            oldest(S) == CHOOSE x \in S : \A y \in S : age(x) <= age(y)
            of_type(t) == {x \in waiting : jobs[x].job_type = t}
        IN
          /\ pq_call.result =
                 IF of_type("ING") # {} THEN oldest(of_type("ING"))
                 ELSE IF of_type("PREPA") # {} THEN oldest(of_type("PREPA"))
                 ELSE oldest(waiting)
          /\ cfg.variant = "HeterogeneousServer" =>
                 /\ jobs[pq_call.result].start_time # None
                 /\ jobs[pq_call.result].job_type # "ING" => of_type("ING") = {}

\* a PRIORITY server started an ING job ahead of a job enqueued before it
C9_IngOvertakes ==
    /\ cfg.variant = "HeterogeneousServer"
    /\ pq_call.op = "priority"
    /\ Len(pq_call.before) >= 2
    /\ jobs[pq_call.result].job_type = "ING"
    /\ pq_call.result # pq_call.before[1]
    /\ jobs[pq_call.before[1]].job_type = "PREPA"

----------------------------------------------------------------------------
(* Determinism of seeded runs (SpecSeeded) *)

\* C7 as stated: the engine built second with the same parameters and the
\* same seed, in the same process, ends with the Event Log of the first,
\* record for record, entity ids included
C7_SameSeedSameLog ==
    (run_no = 2 /\ state = "stopped") => log = first_log

----------------------------------------------------------------------------
(* Properties of PriorityQueue (SpecPriorityQueue) *)

\* C8 as stated: on a non-empty queue whose jobs all have a known service
\* time >= 0, get_next_sjf returns a job of minimum service time, the first
\* added among equal minima, and removes exactly that job, the others keeping
\* their order
C8_SjfReturnsMinimum ==
    (/\ pq_call.op = "sjf"
     /\ pq_call.before # <<>>
     /\ \A k \in 1..Len(pq_call.before) :
          jobs[pq_call.before[k]].service_time # None) =>
        LET b == pq_call.before
            r == pq_call.result
            d(x) == jobs[x].service_time
            pos == CHOOSE k \in 1..Len(b) : b[k] = r
        IN
          /\ \E k \in 1..Len(b) : b[k] = r
          /\ \A k \in 1..Len(b) : d(r) <= d(b[k])
          /\ \A k \in 1..(pos - 1) : d(r) < d(b[k])
          /\ custom_queue = SubSeq(b, 1, pos - 1) \o SubSeq(b, pos + 1, Len(b))

\* C10: get_next_fifo returns the job added earliest among those in the queue
\* and removes only that job; on an empty queue it returns None and the queue
\* stays empty
C10_FifoOldest ==
    pq_call.op = "fifo" =>
        LET b == pq_call.before
            waiting == {b[k] : k \in 1..Len(b)}
            age(x) == CHOOSE n \in 1..Len(pq_call.added) : pq_call.added[n] = x
        IN
          IF b = <<>>
          THEN pq_call.result = None /\ custom_queue = <<>>
          ELSE /\ pq_call.result \in waiting
               /\ \A y \in waiting : age(pq_call.result) <= age(y)
               /\ custom_queue = SelectSeq(b, LAMBDA x : x # pq_call.result)
               /\ Len(custom_queue) = Len(b) - 1

\* get_next_fifo took a job out of a queue of several jobs after another
\* job had been taken out
C10_FifoAfterRemoval ==
    /\ pq_call.op = "fifo"
    /\ Len(pq_call.before) >= 2
    /\ Len(pq_call.added) = Len(pq_call.before) + 1
    /\ pq_call.result # None

----------------------------------------------------------------------------
(* Properties of GatingController (SpecGating) *)

\* C11: is_open(t) is true exactly when t lies in none of the intervals, each
\* read as half-open [start, end): it is false at the start of a non-empty
\* interval and true at its end unless another interval covers the end
C11_IsOpenHalfOpen ==
    last_call.op = "is_open" =>
        LET t == IF last_call.arg = None THEN now ELSE last_call.arg
            g == cfg.gating_intervals
            closed == UNION {g[k][1]..(g[k][2] - 1) : k \in 1..Len(g)}
        IN
          /\ last_call.result <=> t \notin closed
          /\ \A k \in 1..Len(g) :
               /\ (g[k][1] < g[k][2] /\ t = g[k][1]) => ~last_call.result
               /\ (t = g[k][2] /\ ~last_call.result) =>
                      \E m \in 1..Len(g) : m # k /\ g[m][1] <= t /\ t < g[m][2]

\* the intervals of test_gating_controller scaled to (2,4),(6,8): the gate
\* is open at time 4, the end of the first interval
C11_OpenAtEnd ==
    /\ cfg.gating_intervals = << <<2, 4>>, <<6, 8>> >>
    /\ last_call.op = "is_open"
    /\ last_call.arg = 4
    /\ last_call.result

----------------------------------------------------------------------------
(* Properties of the gated HeterogeneousServer (Spec) *)

\* C12: a job that arrives at a time inside a closed interval [s, e) is not
\* in the waiting queue, holds or requests no slot, has no record and has not
\* started before time e; a job that arrives while the gate is open is
\* enqueued at its arrival instant and never waits for the gate
C12_GatedAtArrival ==
    cfg.variant = "HeterogeneousServer" =>
        \A i \in 1..Len(jobs) :
            LET j == jobs[i]
                g == cfg.gating_intervals
                covering == {k \in 1..Len(g) :
                               g[k][1] <= j.arrival_time /\ j.arrival_time < g[k][2]}
                recs == {r \in 1..Len(log) : log[r].entity_id = j.id}
                in_queue == \E n \in 1..Len(custom_queue) : custom_queue[n] = i
                asked == \/ \E n \in 1..Len(users) : users[n] = i
                         \/ \E n \in 1..Len(queue) : queue[n] = i
                entered == procs[i].pc \notin {"start", "gate"}
            IN
              /\ \A k \in covering :
                   /\ (in_queue \/ asked \/ entered) => now >= g[k][2]
                   /\ \A r \in recs : log[r].time >= g[k][2]
                   /\ j.start_time # None => j.start_time >= g[k][2]
              /\ covering = {} =>
                   /\ procs[i].pc # "gate"
                   /\ entered =>
                        \E r \in recs : /\ log[r].event_type = "arrival"
                                        /\ log[r].time = j.arrival_time

\* one job arrived while the gate was closed and started after it opened;
\* another arrived while it was open, waited, and started while it was closed
C12_HeldAndNotHeld ==
    /\ cfg.variant = "HeterogeneousServer"
    /\ \E i \in 1..Len(jobs) :
         /\ ~is_open(jobs[i].arrival_time)
         /\ jobs[i].start_time # None
    /\ \E i \in 1..Len(jobs) :
         /\ is_open(jobs[i].arrival_time)
         /\ jobs[i].start_time # None
         /\ jobs[i].arrival_time < jobs[i].start_time
         /\ ~is_open(jobs[i].start_time)

----------------------------------------------------------------------------
(* Properties of the kernel and of the log (Spec) *)

C14_LogAppendOnlyInTimeOrder ==
    [][/\ now' >= now
       /\ Len(log') >= Len(log)
       /\ SubSeq(log', 1, Len(log)) = log
       /\ \A k \in 1..(Len(log') - 1) : log'[k].time <= log'[k + 1].time
       /\ \A k \in 1..Len(log') : log'[k].time <= now']_vars

\* a log with two records at one instant followed by a record at a later one
C14_SameAndLaterTimes ==
    \E k \in 1..(Len(log) - 2) :
        /\ log[k].time = log[k + 1].time
        /\ log[k + 1].time < log[k + 2].time

----------------------------------------------------------------------------
(* Termination of a run (SpecFair) *)

\* runs of one Server scenario by engines built one after the other, or by
\* one engine with reset() in between
SpecReset == InitSeeded /\ [][NextEngine \/ NextServer \/ SimulationEngine_init
                                \/ SimulationEngine_reset]_vars

\* one run of a scenario; env.run is a loop over Environment.step, which
\* keeps stepping while an event is scheduled
NextFair == NextEngine \/ NextServer \/ NextReliability

SpecFair == InitFair /\ [][NextFair]_vars /\ WF_vars(NextFair)

\* C15: a run that has started ends with env.now at the horizon; no record
\* is later than the horizon, no job is created at or after the duration,
\* and once run() has returned nothing changes any more: the continuations
\* still pending are never resumed
C15_RunEndsAtHorizon ==
    /\ (state = "running") ~> (state = "stopped" /\ now = Horizon)
    /\ [](/\ state = "stopped" => now = Horizon
          /\ \A k \in 1..Len(log) : log[k].time <= Horizon
          /\ \A i \in 1..Len(jobs) : jobs[i].arrival_time < cfg.duration)
    /\ [][state = "stopped" => UNCHANGED vars]_vars

\* run() returned while a job was waiting for a slot, another was in its
\* backup or in service and a timeout of the generator was still pending
C15_StoppedWithPending ==
    /\ state = "stopped"
    /\ cfg.variant = "ReliableServer"
    /\ queue # <<>>
    /\ \E p \in 1..Len(procs) : procs[p].pc \in {"backup", "service"}
    /\ \E k \in 1..Len(evq) : evq[k].who[1] = "gen"

----------------------------------------------------------------------------
(* Lifecycle order of the records of a job (Spec) *)

\* C16: every record appended to the log comes later in the lifecycle of its
\* job than every earlier record of that job, the order being arrival, then
\* one rejection and nothing more, or backup_start, backup_end (both
\* optional), start_service, end_service; so each kind appears at most once;
\* an end_service has its start_service before it, a backup_end its
\* backup_start, and a service started after a backup_start has the
\* backup_end in between. Where the scenario logs arrivals (Server,
\* ReliableServer, HeterogeneousServer) the arrival is the first record of
\* the job
C16_LifecycleOrder ==
    [][LET rank(ty) == CASE ty = "arrival" -> 0
                         [] ty = "rejection" -> 1
                         [] ty = "backup_start" -> 2
                         [] ty = "backup_end" -> 3
                         [] ty = "start_service" -> 4
                         [] ty = "end_service" -> 5
           before(l) == {k \in 1..(l - 1) : log'[k].entity_id = log'[l].entity_id}
           earlier(l, ty) == \E k \in before(l) : log'[k].event_type = ty
       IN
       /\ SubSeq(log', 1, Len(log)) = log
       /\ \A l \in (Len(log) + 1)..Len(log') :
            /\ \A k \in before(l) :
                 /\ rank(log'[k].event_type) < rank(log'[l].event_type)
                 /\ log'[k].event_type # "rejection"
            /\ log'[l].event_type = "end_service" => earlier(l, "start_service")
            /\ log'[l].event_type = "backup_end" => earlier(l, "backup_start")
            /\ log'[l].event_type = "start_service" /\ earlier(l, "backup_start")
                 => earlier(l, "backup_end")
            /\ cfg.variant \in {"Server", "ReliableServer", "HeterogeneousServer"}
                 /\ log'[l].event_type # "arrival"
                 => earlier(l, "arrival")]_vars

\* on a ReliableServer one job has gone through backup and service, and
\* another has started its service with no backup
C16_FullLifecycle ==
    /\ cfg.variant = "ReliableServer"
    /\ \E e \in 1..Len(log) :
         /\ log[e].event_type = "end_service"
         /\ \E k \in 1..(e - 1) : /\ log[k].event_type = "backup_end"
                                   /\ log[k].entity_id = log[e].entity_id
    /\ \E e \in 1..Len(log) :
         /\ log[e].event_type = "start_service"
         /\ \A k \in 1..(e - 1) : log[k].entity_id = log[e].entity_id
                                     => log[k].event_type = "arrival"

----------------------------------------------------------------------------
(* Arrival records of the capacity variants (SpecCapacity) *)

\* C17: in a LimitedQueue or LossSystem scenario every rejection or
\* start_service record has an arrival record of the same job before it, and
\* the number of arrival records equals total_arrivals
C17_ArrivalRecorded ==
    LET arrivals == {k \in 1..Len(log) : log[k].event_type = "arrival"} IN
    /\ Cardinality(arrivals) = stats.total_arrivals
    /\ \A l \in 1..Len(log) :
         log[l].event_type \in {"rejection", "start_service"}
           => \E k \in arrivals : k < l /\ log[k].entity_id = log[l].entity_id

----------------------------------------------------------------------------
(* The slot of a ReliableServer job (Spec) *)

\* C18: on a ReliableServer with C servers a job in its backup or in service
\* holds exactly one slot and has no request waiting; the jobs in backup or
\* in service are at most C, and so are the slots held
C18_BackupInsideSlot ==
    cfg.variant = "ReliableServer" =>
        LET inside == {p \in 1..Len(procs) : procs[p].pc \in {"backup", "service"}} IN
        /\ \A p \in inside :
             /\ Cardinality({k \in 1..Len(users) : users[k] = p}) = 1
             /\ \A k \in 1..Len(queue) : queue[k] # p
        /\ Cardinality(inside) <= cfg.num_servers
        /\ Len(users) <= cfg.num_servers

\* every slot is held, one job is in its backup, another in service, and a
\* third waits
C18_BackupAndServiceFull ==
    /\ cfg.variant = "ReliableServer"
    /\ Len(users) = cfg.num_servers
    /\ queue # <<>>
    /\ \E p \in 1..Len(procs) : procs[p].pc = "backup"
    /\ \E p \in 1..Len(procs) : procs[p].pc = "service"

----------------------------------------------------------------------------
(* Backup decisions (SpecBackup) *)

\* C19: SystematicBackup.should_backup returns True for every job in every
\* state; ConditionalBackup.should_backup returns True exactly when the queue
\* length is strictly below the threshold; a decision changes no job field
\* and no counter
C19_BackupDecision ==
    /\ [](last_call.op = "should_backup" =>
            /\ cfg.backup_strategy = "systematic" => last_call.result
            /\ cfg.backup_strategy = "conditional" =>
                 (last_call.result <=> Len(queue) < cfg.threshold))
    /\ [][jobs' = jobs /\ stats' = stats /\ queue' = queue]_vars

\* a conditional strategy declined with the queue exactly at a positive
\* threshold
C19_DeclinedAtThreshold ==
    /\ last_call.op = "should_backup"
    /\ cfg.backup_strategy = "conditional"
    /\ cfg.threshold > 0
    /\ Len(queue) = cfg.threshold
    /\ ~last_call.result

----------------------------------------------------------------------------
(* Job ids over runs and resets (SpecReset) *)

\* C20: over all the jobs created in the process, runs and resets included,
\* ids strictly increase in creation order (so no id is used twice)
C20_IdsNeverReused ==
    \A a \in 1..Len(issued), b \in 1..Len(issued) :
      \A i \in 1..Len(issued[a]), j \in 1..Len(issued[b]) :
        (a < b \/ (a = b /\ i < j)) => issued[a][i] < issued[b][j]

\* C20, amended: the jobs created since the start of the process or since the
\* last reset, over all the runs in between, have the ids 0, 1, 2, .. in
\* creation order, and the counter is the number of those jobs
C20_IdsIncreaseBetweenResets ==
    /\ \A a \in 1..Len(issued) : \A i \in 1..Len(issued[a]) : issued[a][i] = i - 1
    /\ Job_id_counter = Len(issued[Len(issued)])

\* a job was created after a reset that followed a run with jobs
C20_JobAfterReset ==
    /\ Len(issued) = 2
    /\ issued[1] # <<>>
    /\ issued[2] # <<>>

----------------------------------------------------------------------------
(* Construction with any parameters (SpecConstruct) *)

\* interval bounds a caller may pass, a negative one included
AnyBounds == {-1, 1, 2, 3}

AnyIntervals == {<<s, e>> : s \in AnyBounds, e \in AnyBounds}

\* arguments of GatingController(env, gating_intervals) and of
\* LimitedQueue(env, queue_id, max_queue_size, num_servers, logger)
AnyConfigs ==
    {[Config("GatingController", 1, 0, Horizon)
        EXCEPT !.populations = <<>>, !.gating_intervals = g] :
       g \in {<<a>> : a \in AnyIntervals}
             \cup {<<a, b>> : a \in AnyIntervals, b \in AnyIntervals}}
    \cup {Config("LimitedQueue", c, k, d) :
            c \in ServerCounts, k \in {-1} \cup QueueSizes, d \in GenDurations}

\* before the constructor is called
InitConstruct ==
    /\ cfg \in AnyConfigs
    /\ state = "new"
    /\ now = 0
    /\ evq = <<>>
    /\ eid = 0
    /\ users = <<>>
    /\ queue = <<>>
    /\ custom_queue = <<>>
    /\ jobs = <<>>
    /\ procs = <<>>
    /\ gens = [g \in 1..Len(cfg.populations) |->
                 [pc |-> "new", job_type |-> cfg.populations[g], jobs_generated |-> 0]]
    /\ log = <<>>
    /\ stats = InitStats
    /\ rng = Random(FALSE)
    /\ Idle

\* GatingController.__init__: the arguments are stored as they are
GatingController_init ==
    /\ cfg.variant = "GatingController"
    /\ state = "new"
    /\ state' = "built"
    /\ UNCHANGED << cfg, now, evq, eid, users, queue, custom_queue, jobs,
                    Job_id_counter, procs, gens, log, stats, rng, run_no,
                    first_log, pq_call, last_call, issued >>

\* LimitedQueue.__init__: the arguments are stored as they are, the Resource
\* is made with capacity num_servers and the counters are zero
LimitedQueue_init ==
    /\ cfg.variant = "LimitedQueue"
    /\ state = "new"
    /\ state' = "built"
    /\ UNCHANGED << cfg, now, evq, eid, users, queue, custom_queue, jobs,
                    Job_id_counter, procs, gens, log, stats, rng, run_no,
                    first_log, pq_call, last_call, issued >>

NextConstruct ==
    \/ GatingController_init
    \/ LimitedQueue_init
    \/ GatingController_is_open
    \/ NextEngine
    \/ LimitedQueue_process_job_reject
    \/ LimitedQueue_process_job_request
    \/ LimitedQueue_process_job_start
    \/ LimitedQueue_process_job_end

\* a constructor call with any arguments, then the use of the object
SpecConstruct == InitConstruct /\ [][NextConstruct]_vars

\* C21: an object exists (and, for a LimitedQueue, runs) only if its
\* parameters are valid: the closed intervals have non-negative bounds and
\* do not overlap, max_queue_size is not negative
C21_InvalidRejected ==
    LET g == cfg.gating_intervals
        overlap(a, b) == a[1] < b[2] /\ b[1] < a[2]
        valid == /\ cfg.max_queue_size >= 0
                 /\ \A i \in 1..Len(g) : g[i][1] >= 0 /\ g[i][2] >= 0
                 /\ \A i \in 1..Len(g), j \in 1..Len(g) :
                      i # j => ~overlap(g[i], g[j])
    IN state # "new" => valid

----------------------------------------------------------------------------
(* A dequeue that yields no job (SpecDequeue) *)

\* ungated HeterogeneousServer scenarios with one population
InitDequeue ==
    /\ \E h \in Configs, d \in GenDurations :
         /\ h.variant = "HeterogeneousServer"
         /\ h.gating_intervals = <<>>
         /\ Constructed([h EXCEPT !.duration = d, !.populations = <<"ING">>])
    /\ rng = Random(FALSE)
    /\ Idle

\* server.custom_queue.get_next_fifo() called by code other than the server
\* while the run is on (custom_queue is a public attribute), once in a run:
\* the waiting set then holds fewer jobs than there are processes waiting
\* for a slot
custom_queue_get_next_fifo ==
    /\ cfg.variant = "HeterogeneousServer"
    /\ state = "running"
    /\ custom_queue # <<>>
    /\ last_call = NoDirectCall
    /\ last_call' = [op |-> "get_next_fifo", arg |-> None, result |-> TRUE]
    /\ custom_queue' = RemoveAt(custom_queue, fifo_index(custom_queue))
    /\ UNCHANGED << cfg, state, now, evq, eid, users, queue, jobs,
                    Job_id_counter, procs, gens, log, stats, rng, run_no,
                    first_log, pq_call, issued >>

NextDequeue ==
    \/ NextEngine
    \/ HeterogeneousServer_process_job_enqueue
    \/ HeterogeneousServer_process_job_start
    \/ HeterogeneousServer_process_job_end
    \/ custom_queue_get_next_fifo

SpecDequeue == InitDequeue /\ [][NextDequeue]_vars

\* C22: when a granted process asks the policy for the next job and gets
\* none, the run is aborted at that step: it does not go on with the slot
\* released
C22_DequeueFaultAborts ==
    [][(/\ Fires("Request", "job")
        /\ custom_queue = <<>>
        /\ now' = Cur.time)
       => state' # "running"]_vars

----------------------------------------------------------------------------
(* The effect of a rejection (SpecCapacity) *)

\* C23: the step that rejects a job (a job process starts while the system
\* is full) marks that job rejected with the reason of the resource, adds one
\* to total_arrivals and to total_rejections (and to rejections_queue_full on
\* a LimitedQueue), appends one rejection record with the job's id and the
\* reason, and leaves the run going, the users, the wait queue, jobs_completed
\* and every other job as they were
C23_RejectionEffect ==
    [][LET p == Cur.who[2]
           full == IF cfg.variant = "LimitedQueue"
                   THEN Len(users) + Len(queue) >= cfg.num_servers + cfg.max_queue_size
                   ELSE Len(users) >= cfg.num_servers
           reason == IF cfg.variant = "LimitedQueue" THEN "queue_full"
                     ELSE "servers_full"
       IN
       (Fires("Initialize", "job") /\ full /\ now' = Cur.time) =>
         /\ jobs'[p].was_rejected
         /\ jobs'[p].rejection_reason = reason
         /\ \A i \in 1..Len(jobs) : i # p => jobs'[i] = jobs[i]
         /\ [jobs'[p] EXCEPT !.was_rejected = FALSE, !.rejection_reason = "None"]
              = [jobs[p] EXCEPT !.was_rejected = FALSE, !.rejection_reason = "None"]
         /\ stats'.total_arrivals = stats.total_arrivals + 1
         /\ stats'.total_rejections = stats.total_rejections + 1
         /\ stats'.rejections_queue_full = stats.rejections_queue_full
              + (IF cfg.variant = "LimitedQueue" THEN 1 ELSE 0)
         /\ stats'.jobs_completed = stats.jobs_completed
         /\ Len(log') = Len(log) + 1
         /\ SubSeq(log', 1, Len(log)) = log
         /\ log'[Len(log')].event_type = "rejection"
         /\ log'[Len(log')].entity_id = jobs[p].id
         /\ log'[Len(log')].rejection_reason = reason
         /\ users' = users
         /\ queue' = queue
         /\ state' = "running"]_vars

\* a job was rejected while the servers were busy and, on a LimitedQueue,
\* while another job was waiting
C23_Rejected ==
    /\ stats.total_rejections > 0
    /\ users # <<>>
    /\ \E k \in 1..Len(log) : log[k].event_type = "rejection"
    /\ cfg.variant = "LimitedQueue" => queue # <<>>

----------------------------------------------------------------------------
(* SJF on a HeterogeneousServer (Spec) *)

\* C24: on a HeterogeneousServer with policy SJF, the job that starts service
\* when a slot is granted has a service duration no longer than that of any
\* job in the waiting queue at that instant
C24_SjfStartsShortest ==
    (/\ cfg.variant = "HeterogeneousServer"
     /\ cfg.scheduling_policy = "SJF"
     /\ pq_call.op = "sjf"
     /\ pq_call.result # None)
    => \A k \in 1..Len(pq_call.before) :
         jobs[pq_call.result].service_time
           <= jobs[pq_call.before[k]].service_time

----------------------------------------------------------------------------
(* Order of service on the resources that rely on arrival order (Spec) *)

\* C25: on a Server, ReliableServer or LimitedQueue, of two admitted jobs
\* the one that requested first has the smaller or equal start_time, and its
\* start_service record comes first in the log
C25_StartInRequestOrder ==
    cfg.variant \in {"Server", "ReliableServer", "LimitedQueue"} =>
        /\ \A i \in 1..Len(jobs), j \in 1..Len(jobs) :
             (i < j /\ jobs[i].start_time # None /\ jobs[j].start_time # None)
               => jobs[i].start_time <= jobs[j].start_time
        /\ \A a \in 1..Len(log), b \in 1..Len(log) :
             (/\ a < b
              /\ log[a].event_type = "start_service"
              /\ log[b].event_type = "start_service")
               => log[a].entity_id < log[b].entity_id

\* C25, amended: slots are granted in the order of the requests: when a job
\* is granted its slot, every job that requested before it and was not
\* rejected has been granted already, with a smaller or equal start_time,
\* and the first record written under a slot (backup_start, or start_service
\* when there is no backup) follows those of all earlier jobs. On a Server
\* and a LimitedQueue that record is the start_service record
C25_GrantInRequestOrder ==
    [][cfg.variant \in {"Server", "ReliableServer", "LimitedQueue"} =>
        LET granted(k) ==
              \/ log'[k].event_type = "backup_start"
              \/ /\ log'[k].event_type = "start_service"
                 /\ \A h \in 1..(k - 1) :
                      log'[h].entity_id = log'[k].entity_id
                        => log'[h].event_type # "backup_start"
        IN
        /\ \A j \in 1..Len(jobs) :
             (jobs[j].start_time = None /\ jobs'[j].start_time # None) =>
               \A i \in 1..(j - 1) :
                 ~jobs'[i].was_rejected
                   => /\ jobs'[i].start_time # None
                      /\ jobs'[i].start_time <= jobs'[j].start_time
        /\ \A b \in (Len(log) + 1)..Len(log') :
             /\ granted(b) => \A a \in 1..(b - 1) :
                                granted(a) => log'[a].entity_id < log'[b].entity_id
             /\ cfg.variant # "ReliableServer"
                  => log'[b].event_type # "backup_start"]_vars

\* on a ReliableServer the start_service record of a job precedes that of a
\* job that requested earlier (and spent longer in its backup), and some job
\* had to wait for its slot
C25_LaterJobStartsFirst ==
    /\ cfg.variant = "ReliableServer"
    /\ \E a \in 1..Len(log), b \in 1..Len(log) :
         /\ a < b
         /\ log[a].event_type = "start_service"
         /\ log[b].event_type = "start_service"
         /\ log[a].entity_id > log[b].entity_id
    /\ \E j \in 1..Len(jobs) :
         jobs[j].start_time # None /\ jobs[j].start_time > jobs[j].arrival_time

----------------------------------------------------------------------------
(* GatingController.wait_until_open called on its own (SpecWait) *)

\* env.process(controller.wait_until_open()) at time t on a fresh
\* environment, then env.run() with no horizon; last_call keeps t
wait_until_open_call ==
    /\ cfg.variant = "GatingController"
    /\ state = "built"
    /\ \E t \in GateTimes :
         /\ now' = t
         /\ evq' = <<Event(t, URGENT, eid, "Initialize", <<"gate", 1>>)>>
         /\ last_call' = [op |-> "wait_until_open", arg |-> t, result |-> FALSE]
    /\ eid' = eid + 1
    /\ state' = "running"
    /\ UNCHANGED << cfg, users, queue, custom_queue, jobs, Job_id_counter, procs,
                    gens, log, stats, rng, run_no, first_log, pq_call, issued >>

NextWait ==
    \/ wait_until_open_call
    \/ wait_until_open_sleep
    \/ wait_until_open_return

\* the kernel steps while an event is scheduled
SpecWait == InitGating /\ [][NextWait]_vars /\ WF_vars(NextWait)

\* C26: wait_until_open called at time t returns, and it returns at the
\* earliest time >= t at which the gate is open; while it is suspended its
\* wake-up is the end of an interval that covers the current time; called
\* while the gate is open it returns at t without having suspended
C26_ReturnsAtEarliestOpening ==
    LET t == last_call.arg
        called == last_call.op = "wait_until_open"
        returned == called /\ evq # <<>> /\ Cur.kind = "Process"
        earliest == CHOOSE u \in t..MaxGateTime :
                      is_open(u) /\ \A v \in t..(u - 1) : ~is_open(v)
        g == cfg.gating_intervals
    IN
    /\ called ~> returned
    /\ [](returned => /\ Cur.time = earliest
                      /\ now = earliest
                      /\ is_open(t) => now = t /\ eid = 2)
    /\ [](called /\ evq # <<>> /\ Cur.kind = "Timeout" =>
            \E k \in 1..Len(g) : g[k][1] <= now /\ now < g[k][2] /\ Cur.time = g[k][2])

\* the call was made inside a closed interval, was suspended twice because
\* the closed intervals follow each other, and has returned
C26_ReturnedAfterTwoWaits ==
    /\ last_call.op = "wait_until_open"
    /\ evq # <<>>
    /\ Cur.kind = "Process"
    /\ eid = 4
    /\ Len(cfg.gating_intervals) = 2
    /\ cfg.gating_intervals[1][2] = cfg.gating_intervals[2][1]
    /\ now > last_call.arg

----------------------------------------------------------------------------
(* FailureRecovery.failure_process beside a capacity scenario (SpecFailure) *)
(* is_operational, failure_count and total_downtime are kept in stats       *)

\* draws of the time to the next failure and of the recovery time
FailureGaps == {1, 2}

\* the record of a failure or of a recovery: entity -1 of type SYSTEM
system_event(t, ty) ==
    [log_event(t, ty, [id |-> -1, job_type |-> "SYSTEM"], 0)
       EXCEPT !.server_id = "failure_recovery"]

\* the generators and env.process(recovery.failure_process()) are started,
\* then env.run(until = Horizon)
FailureRecovery_run ==
    /\ cfg.variant \in {"LimitedQueue", "LossSystem"}
    /\ state = "built"
    /\ state' = "running"
    /\ evq' = [g \in 1..Len(gens) |->
                 Event(0, URGENT, g - 1, "Initialize", <<"gen", g>>)]
              \o <<Event(0, URGENT, Len(gens), "Initialize", <<"fail", 0>>),
                   Event(Horizon, URGENT, Len(gens) + 1, "Until", <<"env", 0>>)>>
    /\ eid' = Len(gens) + 2
    /\ gens' = [g \in 1..Len(gens) |-> [gens[g] EXCEPT !.pc = "start"]]
    /\ UNCHANGED << cfg, now, users, queue, custom_queue, jobs, Job_id_counter,
                    procs, log, stats, rng, run_no, first_log, pq_call,
                    last_call, issued >>

\* first entry of 'while True': draw the time to failure and sleep
failure_process_start ==
    /\ Fires("Initialize", "fail")
    /\ \E ttf \in FailureGaps :
         /\ random_draw(FailureGaps, ttf, 0)
         /\ evq' = Push(Rest, Event(Cur.time + ttf, NORMAL, eid, "Timeout",
                                    <<"fail", 0>>))
         /\ rng' = rng_after(<<ttf>>)
    /\ now' = Cur.time
    /\ eid' = eid + 1
    /\ UNCHANGED << cfg, state, users, queue, custom_queue, jobs, Job_id_counter,
                    procs, gens, log, stats, run_no, first_log, pq_call,
                    last_call, issued >>

\* a failure that empties the servers
failure_process_fail_evicts ==
    /\ Fires("Timeout", "fail")
    /\ stats.is_operational
    /\ \E rt \in FailureGaps :
         /\ random_draw(FailureGaps, rt, 0)
         /\ evq' = Push(Rest, Event(Cur.time + rt, NORMAL, eid, "Timeout",
                                    <<"fail", rt>>))
         /\ rng' = rng_after(<<rt>>)
    /\ now' = Cur.time
    /\ eid' = eid + 1
    /\ users' = <<>>
    /\ stats' = [stats EXCEPT !.is_operational = FALSE, !.failure_count = @ + 1]
    /\ log' = Append(log, system_event(Cur.time, "rejection"))
    /\ UNCHANGED << cfg, state, queue, custom_queue, jobs, Job_id_counter,
                    procs, gens, run_no, first_log, pq_call, last_call, issued >>

\* the time to failure has passed: the failure is counted and logged as a
\* REJECTION record, the recovery time is drawn
failure_process_fail ==
    /\ Fires("Timeout", "fail")
    /\ stats.is_operational
    /\ \E rt \in FailureGaps :
         /\ random_draw(FailureGaps, rt, 0)
         /\ evq' = Push(Rest, Event(Cur.time + rt, NORMAL, eid, "Timeout",
                                    <<"fail", rt>>))
         /\ rng' = rng_after(<<rt>>)
    /\ now' = Cur.time
    /\ eid' = eid + 1
    /\ stats' = [stats EXCEPT !.is_operational = FALSE, !.failure_count = @ + 1]
    /\ log' = Append(log, system_event(Cur.time, "rejection"))
    /\ UNCHANGED << cfg, state, users, queue, custom_queue, jobs, Job_id_counter,
                    procs, gens, run_no, first_log, pq_call, last_call, issued >>

\* the recovery time has passed: the recovery is logged as an ARRIVAL record,
\* the next time to failure is drawn
failure_process_recover ==
    /\ Fires("Timeout", "fail")
    /\ ~stats.is_operational
    /\ \E ttf \in FailureGaps :
         /\ random_draw(FailureGaps, ttf, 0)
         /\ evq' = Push(Rest, Event(Cur.time + ttf, NORMAL, eid, "Timeout",
                                    <<"fail", 0>>))
         /\ rng' = rng_after(<<ttf>>)
    /\ now' = Cur.time
    /\ eid' = eid + 1
    /\ stats' = [stats EXCEPT !.is_operational = TRUE,
                              !.total_downtime = @ + Cur.who[2]]
    /\ log' = Append(log, system_event(Cur.time, "arrival"))
    /\ UNCHANGED << cfg, state, users, queue, custom_queue, jobs, Job_id_counter,
                    procs, gens, run_no, first_log, pq_call, last_call, issued >>

NextFailure ==
    \/ FailureRecovery_run
    \/ failure_process_start
    \/ failure_process_fail
    \/ failure_process_recover
    \/ Environment_stop
    \/ generate_start
    \/ generate_arrival
    \/ generate_stop
    \/ Release_processed
    \/ NextCapacity

\* one run of a LimitedQueue or LossSystem scenario with a failure process
SpecFailure == InitCapacity /\ [][NextFailure]_vars

\* C27: a step of failure_process changes no job, no process, no user or
\* waiting request of the resource and none of its counters; a failure turns
\* is_operational off, adds one to failure_count and logs one record, a
\* recovery turns it on and logs one record; and a job that arrives is
\* rejected exactly when the resource is full, whatever is_operational is
C27_FailureOnlyTracked ==
    [][/\ (Fires("Initialize", "fail") \/ Fires("Timeout", "fail")) /\ now' = Cur.time
          => /\ users' = users /\ queue' = queue /\ jobs' = jobs /\ procs' = procs
             /\ [stats' EXCEPT !.is_operational = TRUE, !.failure_count = 0,
                               !.total_downtime = 0]
                  = [stats EXCEPT !.is_operational = TRUE, !.failure_count = 0,
                                  !.total_downtime = 0]
       /\ Fires("Timeout", "fail") /\ now' = Cur.time
          => /\ stats'.is_operational = ~stats.is_operational
             /\ stats'.failure_count = stats.failure_count
                  + (IF stats.is_operational THEN 1 ELSE 0)
             /\ Len(log') = Len(log) + 1
             /\ log'[Len(log')].entity_id = -1
       /\ Fires("Initialize", "job") /\ now' = Cur.time
          => (jobs'[Cur.who[2]].was_rejected
                <=> IF cfg.variant = "LimitedQueue"
                    THEN Len(users) + Len(queue)
                           >= cfg.num_servers + cfg.max_queue_size
                    ELSE Len(users) >= cfg.num_servers)]_vars

\* a job was admitted and started service during a downtime, after a
\* failure and a recovery
C27_ServedDuringDowntime ==
    /\ ~stats.is_operational
    /\ stats.failure_count = 2
    /\ \E j \in 1..Len(jobs) :
         /\ jobs[j].start_time = now
         /\ jobs[j].arrival_time = now

\* C28: every rejection record names a created job whose was_rejected flag is
\* set and carries the reason queue_full or servers_full, and the number of
\* rejection records is total_rejections
C28_RejectionRecordsAreCapacity ==
    LET rej == {i \in 1..Len(log) : log[i].event_type = "rejection"}
    IN  /\ \A i \in rej :
             /\ log[i].entity_id \in 1..Len(jobs)
             /\ \E j \in 1..Len(jobs) :
                  jobs[j].id = log[i].entity_id /\ jobs[j].was_rejected
             /\ log[i].rejection_reason \in {"queue_full", "servers_full"}
        /\ Cardinality(rej) = stats.total_rejections

----------------------------------------------------------------------------
(* HeterogeneousServer built with any scheduling_policy string (SpecPolicy) *)

\* the documented names, an unknown name and a misspelled one
AnyPolicies == Policies \cup {"LIFO", "sjf"}

\* one or two populations of jobs
PolicyConfigs ==
    {[Config("HeterogeneousServer", c, 0, Horizon)
        EXCEPT !.scheduling_policy = pol, !.populations = pop] :
       c \in ServerCounts, pol \in AnyPolicies, pop \in Populations}
    \cup {[Config("HeterogeneousServer", c, 0, d)
              EXCEPT !.scheduling_policy = pol, !.populations = <<"ING">>] :
             c \in ServerCounts, d \in GenDurations, pol \in AnyPolicies}

InitPolicy ==
    /\ cfg \in PolicyConfigs
    /\ state = "new"
    /\ now = 0
    /\ evq = <<>>
    /\ eid = 0
    /\ users = <<>>
    /\ queue = <<>>
    /\ custom_queue = <<>>
    /\ jobs = <<>>
    /\ procs = <<>>
    /\ gens = [g \in 1..Len(cfg.populations) |->
                 [pc |-> "new", job_type |-> cfg.populations[g], jobs_generated |-> 0]]
    /\ log = <<>>
    /\ stats = InitStats
    /\ rng = Random(FALSE)
    /\ Idle

\* HeterogeneousServer.__init__: scheduling_policy is stored as it is, the
\* Resource is made with capacity num_servers, the queue is empty
HeterogeneousServer_init ==
    /\ cfg.variant = "HeterogeneousServer"
    /\ state = "new"
    /\ state' = "built"
    /\ UNCHANGED << cfg, now, evq, eid, users, queue, custom_queue, jobs,
                    Job_id_counter, procs, gens, log, stats, rng, run_no,
                    first_log, pq_call, last_call, issued >>

NextPolicy ==
    \/ HeterogeneousServer_init
    \/ NextEngine
    \/ HeterogeneousServer_process_job_enqueue
    \/ HeterogeneousServer_process_job_start
    \/ HeterogeneousServer_process_job_end

\* a HeterogeneousServer without gating, built with any policy string and run
SpecPolicy == InitPolicy /\ [][NextPolicy]_vars

\* C29: on a HeterogeneousServer the jobs with a service-start record and no
\* service-end record are never more than num_servers, and they are the jobs
\* held by the processes in service
C29_OccupancyAtMostC ==
    LET started == {log[i].entity_id : i \in {k \in 1..Len(log) :
                                               log[k].event_type = "start_service"}}
        ended   == {log[i].entity_id : i \in {k \in 1..Len(log) :
                                               log[k].event_type = "end_service"}}
        serving == {procs[p].current_job : p \in {q \in 1..Len(procs) :
                                                   procs[q].pc = "service"}}
    IN  /\ Cardinality(started \ ended) <= cfg.num_servers
        /\ ended \subseteq started
        /\ {jobs[c].id : c \in serving} = started \ ended

\* both servers are busy and one job is served by the process of another job
C29_FullWithForeignJob ==
    /\ cfg.num_servers = MaxServers
    /\ Cardinality({p \in 1..Len(procs) : procs[p].pc = "service"}) = MaxServers
    /\ \E p \in 1..Len(procs) :
         procs[p].pc = "service" /\ procs[p].current_job # p

\* C30: a HeterogeneousServer whose scheduling_policy is neither "SJF" nor
\* "PRIORITY" is built and run, and each of its dequeues returns the job that
\* has waited longest: the head of the queue, which is the waiting job with
\* the earliest arrival and the smallest id
C30_OtherPolicyIsFifo ==
    (cfg.scheduling_policy \notin {"SJF", "PRIORITY"}
       /\ state # "new" /\ pq_call.before # <<>>)
      => /\ pq_call.op = "fifo"
         /\ pq_call.result = pq_call.before[1]
         /\ \A k \in 1..Len(pq_call.before) :
              /\ jobs[pq_call.result].id <= jobs[pq_call.before[k]].id
              /\ jobs[pq_call.result].arrival_time
                   <= jobs[pq_call.before[k]].arrival_time

\* under an unknown or misspelled policy name the head of the queue was
\* started although the job behind it is shorter and the last one is another
C30_UnknownPolicyServedHead ==
    /\ cfg.scheduling_policy \in {"LIFO", "sjf"}
    /\ state = "running"
    /\ Len(pq_call.before) >= 2
    /\ pq_call.result = pq_call.before[1]
    /\ jobs[pq_call.before[2]].service_time > 0
    /\ jobs[pq_call.before[2]].service_time < jobs[pq_call.before[1]].service_time

----------------------------------------------------------------------------
(* A run whose horizon lies after all the work of its jobs (SpecLive) *)

\* a horizon no job can reach: the last arrival and the last reopening of the
\* gate are before Horizon, and each job holds a slot for at most one backup
\* and one service
LongHorizon == Horizon + (MaxJobs + 1) * (MaxDur + 1)

\* engine.run(LongHorizon) with generators that stop at cfg.duration
SimulationEngine_run_long ==
    /\ cfg.variant \notin {"PriorityQueue", "GatingController"}
    /\ state = "built"
    /\ state' = "running"
    /\ evq' = [g \in 1..Len(gens) |->
                 Event(0, URGENT, g - 1, "Initialize", <<"gen", g>>)]
              \o <<Event(LongHorizon, URGENT, Len(gens), "Until", <<"env", 0>>)>>
    /\ eid' = Len(gens) + 1
    /\ gens' = [g \in 1..Len(gens) |-> [gens[g] EXCEPT !.pc = "start"]]
    /\ UNCHANGED << cfg, now, users, queue, custom_queue, jobs, Job_id_counter,
                    procs, log, stats, rng, run_no, first_log, pq_call,
                    last_call, issued >>

\* every resource variant: the ReliableServer with the conditional strategy,
\* the HeterogeneousServer behind a gate that closes twice, with one
\* population under FIFO and SJF and with two, on one server, under PRIORITY
LiveConfigs ==
    {c \in Configs :
       \/ c.variant \in {"Server", "LossSystem", "LimitedQueue"}
       \/ c.variant = "ReliableServer" /\ c.backup_strategy = "conditional"
       \/ /\ c.variant = "HeterogeneousServer"
          /\ c.scheduling_policy = "PRIORITY"
          /\ c.num_servers = 1
          /\ Len(c.gating_intervals) = 2}
    \cup {[c EXCEPT !.populations = <<"ING">>] :
            c \in {h \in Configs : /\ h.variant = "HeterogeneousServer"
                                   /\ h.scheduling_policy # "PRIORITY"
                                   /\ Len(h.gating_intervals) = 2}}

InitLive ==
    /\ \E c \in LiveConfigs : Constructed(c)
    /\ rng = Random(FALSE)
    /\ Idle

NextLive ==
    \/ SimulationEngine_run_long
    \/ Environment_stop
    \/ generate_start
    \/ generate_arrival
    \/ generate_stop
    \/ Release_processed
    \/ NextServer
    \/ NextCapacity
    \/ NextRegulation
    \/ NextReliability

\* every variant and policy, run to a horizon after all the work; the kernel
\* processes the next event as long as there is one
SpecLive == InitLive /\ [][NextLive]_vars /\ WF_vars(NextLive)

\* C31: the run ends, and when it ends no event, slot request or waiting job
\* is left: every job that was not rejected has started, has ended and has
\* its end record, and every process has returned
C31_EveryAdmittedJobServed ==
    /\ <>[](state = "stopped")
    /\ [](state = "stopped"
            => /\ evq = <<>> /\ queue = <<>> /\ users = <<>> /\ custom_queue = <<>>
               /\ \A p \in 1..Len(procs) : procs[p].pc = "done"
               /\ \A j \in 1..Len(jobs) :
                    \/ jobs[j].was_rejected
                    \/ /\ jobs[j].start_time # None
                       /\ jobs[j].end_time # None
                       /\ \E k \in 1..Len(log) :
                            /\ log[k].event_type = "end_service"
                            /\ log[k].entity_id = jobs[j].id)

\* a gated PRIORITY run has ended after one of its jobs waited for a slot
C31_GatedPriorityRunDrained ==
    /\ state = "stopped"
    /\ cfg.variant = "HeterogeneousServer"
    /\ cfg.scheduling_policy = "PRIORITY"
    /\ cfg.gating_intervals # <<>>
    /\ Len(jobs) >= 3
    /\ \E j \in 1..Len(jobs) :
         /\ jobs[j].end_time # None
         /\ jobs[j].start_time > jobs[j].arrival_time + 1

\* C32: on a HeterogeneousServer no job has two service-start records, the
\* jobs enqueued so far (one arrival record each) are the started jobs plus
\* the jobs of the custom queue, and no job is in both or twice in the queue
C32_DequeuedAtMostOnce ==
    cfg.variant = "HeterogeneousServer" =>
      LET starts   == {k \in 1..Len(log) : log[k].event_type = "start_service"}
          enqueued == {k \in 1..Len(log) : log[k].event_type = "arrival"}
          started  == {log[k].entity_id : k \in starts}
          waiting  == {jobs[custom_queue[i]].id : i \in 1..Len(custom_queue)}
      IN  /\ Cardinality(started) = Cardinality(starts)
          /\ Cardinality(waiting) = Len(custom_queue)
          /\ started \cap waiting = {}
          /\ Cardinality(enqueued) = Cardinality(starts) + Len(custom_queue)
          /\ started \cup waiting = {log[k].entity_id : k \in enqueued}

\* under SJF or PRIORITY two jobs have started, one of them in the process of
\* another job, one has ended and one is still in the queue
C32_StartedOutOfOrderAndWaiting ==
    /\ cfg.scheduling_policy \in {"SJF", "PRIORITY"}
    /\ custom_queue # <<>>
    /\ \E p \in 1..Len(procs) : procs[p].current_job \notin {None, p}
    /\ \E j \in 1..Len(jobs) : jobs[j].end_time # None
    /\ Cardinality({j \in 1..Len(jobs) : jobs[j].start_time # None}) >= 2

\* C33: when the request of a HeterogeneousServer process is granted the
\* custom queue holds a job, as many jobs as there are requests granted or
\* waiting, and no dequeue has returned None
C33_QueueNotEmptyAtGrant ==
    cfg.variant = "HeterogeneousServer" =>
      LET requesting == {p \in 1..Len(procs) : procs[p].pc = "request"} IN
        /\ Cardinality(requesting) = Len(custom_queue)
        /\ (state = "running" /\ evq # <<>> /\ Cur.kind = "Request")
              => custom_queue # <<>>
        /\ pq_call.op # "none" => pq_call.result # None

\* a grant is about to be processed while the queue holds exactly one job,
\* after another job has been served out of arrival order
C33_GrantWithOneJobQueued ==
    /\ cfg.variant = "HeterogeneousServer"
    /\ state = "running" /\ evq # <<>> /\ Cur.kind = "Request"
    /\ Len(custom_queue) = 1
    /\ custom_queue[1] # Cur.who[2]
    /\ \E j \in 1..Len(jobs) : jobs[j].end_time # None

\* C34: in every state of a LimitedQueue total_arrivals = total_rejections +
\* jobs_completed + occupancy + waiting, in every state of a LossSystem
\* nobody waits and total_arrivals = total_rejections + jobs_completed +
\* occupancy; so rejections and completions never exceed the arrivals
C34_CountersBalance ==
    /\ cfg.variant = "LimitedQueue"
         => stats.total_arrivals = stats.total_rejections + stats.jobs_completed
                                     + Len(users) + Len(queue)
    /\ cfg.variant = "LossSystem"
         => /\ queue = <<>>
            /\ stats.total_arrivals = stats.total_rejections + stats.jobs_completed
                                        + Len(users)
    /\ cfg.variant \in {"LimitedQueue", "LossSystem"}
         => /\ stats.total_rejections <= stats.total_arrivals
            /\ stats.jobs_completed <= stats.total_arrivals

\* in the middle of a LimitedQueue run one job is served, one waits and one
\* was rejected
C34_ServedWaitingRejected ==
    /\ cfg.variant = "LimitedQueue"
    /\ state = "running"
    /\ Len(users) >= 1
    /\ Len(queue) >= 1
    /\ stats.total_rejections >= 1

\* C35: in every state of a LimitedQueue at most max_queue_size requests wait
C35_WaitingAtMostK ==
    cfg.variant = "LimitedQueue" => Len(queue) <= cfg.max_queue_size

\* a job ended and released its slot at the instant another job arrived and
\* was admitted, and the queue is full
C35_ArrivalAtCompletionInstant ==
    /\ cfg.variant = "LimitedQueue"
    /\ state = "running"
    /\ cfg.max_queue_size >= 1
    /\ Len(queue) = cfg.max_queue_size
    /\ \E i, j \in 1..Len(jobs) :
         /\ jobs[i].end_time = now
         /\ jobs[j].arrival_time = now
         /\ jobs[j].arrival_time > jobs[i].arrival_time
         /\ ~jobs[j].was_rejected
         /\ procs[j].pc = "request"

----------------------------------------------------------------------------
(* A LimitedQueue without waiting room and a LossSystem on the same inputs *)
(* (SpecTwin): the first run under a seed, then reset() and the other       *)
(* system under the same seed                                               *)

TwinConfigs ==
    {Config("LimitedQueue", c, 0, d) : c \in ServerCounts, d \in GenDurations}

InitTwin ==
    /\ \E c \in TwinConfigs : Constructed(c)
    /\ rng = Random(TRUE)
    /\ Idle

\* engine.reset() after the run of the LimitedQueue (its events kept by the
\* caller), then a LossSystem with the same number of servers is built
SimulationEngine_reset_as_LossSystem ==
    /\ cfg.variant = "LimitedQueue"
    /\ cfg.max_queue_size = 0
    /\ state = "stopped"
    /\ run_no < MaxRuns
    /\ run_no' = run_no + 1
    /\ first_log' = log
    /\ rng' = [rng EXCEPT !.pos = 1]
    /\ cfg' = [cfg EXCEPT !.variant = "LossSystem", !.server_id = "LossSystem"]
    /\ state' = "built"
    /\ now' = 0
    /\ evq' = <<>>
    /\ eid' = 0
    /\ users' = <<>>
    /\ queue' = <<>>
    /\ custom_queue' = <<>>
    /\ jobs' = <<>>
    /\ procs' = <<>>
    /\ gens' = [g \in 1..Len(gens) |->
                  [pc |-> "new", job_type |-> gens[g].job_type, jobs_generated |-> 0]]
    /\ log' = <<>>
    /\ stats' = InitStats
    /\ Job_id_counter' = 0
    /\ issued' = Append(issued, <<>>)
    /\ UNCHANGED << pq_call, last_call >>

NextTwin ==
    \/ NextEngine
    \/ NextCapacity
    \/ SimulationEngine_reset_as_LossSystem

SpecTwin == InitTwin /\ [][NextTwin]_vars

\* C36: the LossSystem fed the draws of the LimitedQueue with K = 0 logs,
\* record by record, the same rejections, starts and ends of the same jobs
\* at the same times with the same service and response times, and when its
\* run has ended it has logged all of them; only the reason differs
C36_SameDecisionsAndTimes ==
    cfg.variant = "LossSystem" =>
      LET same(a, b) == /\ a.time = b.time
                        /\ a.event_type = b.event_type
                        /\ a.entity_id = b.entity_id
                        /\ a.entity_type = b.entity_type
                        /\ a.queue_length = b.queue_length
                        /\ a.service_time = b.service_time
                        /\ a.response_time = b.response_time
                        /\ (a.rejection_reason = "None") = (b.rejection_reason = "None")
      IN  /\ Len(log) <= Len(first_log)
          /\ \A k \in 1..Len(log) : same(log[k], first_log[k])
          /\ state = "stopped" => Len(log) = Len(first_log)

\* both runs have ended after a rejection and a completed job
C36_BothRunsEnded ==
    /\ cfg.variant = "LossSystem"
    /\ state = "stopped"
    /\ \E k \in 1..Len(log) :
         /\ log[k].event_type = "rejection"
         /\ log[k].rejection_reason = "servers_full"
         /\ first_log[k].rejection_reason = "queue_full"
    /\ \E k \in 1..Len(log) : log[k].event_type = "end_service"

\* C37: on a ReliableServer a completed job has end_time = start_time +
\* backup_time + service_time with start_time the instant of the grant; its
\* end record has response_time = waiting_time + service_time + backup_time;
\* its service-start record is stamped start_time + backup_time, and the
\* backup_time of a job without backup is 0
C37_EndIsStartPlusBackupPlusService ==
    cfg.variant = "ReliableServer" =>
      \A k \in 1..Len(log) :
        LET r == log[k]
            p == CHOOSE i \in 1..Len(jobs) : jobs[i].id = r.entity_id
            j == jobs[p]
            backed_up == \E b \in 1..k : /\ log[b].event_type = "backup_start"
                                        /\ log[b].entity_id = r.entity_id
        IN  /\ r.event_type = "start_service"
              => /\ r.time = j.start_time + r.backup_time
                 /\ ~backed_up => r.backup_time = 0 /\ r.time = j.start_time
            /\ r.event_type = "end_service"
              => /\ j.end_time = j.start_time + r.backup_time + j.service_time
                 /\ r.time = j.end_time
                 /\ r.service_time = j.service_time
                 /\ r.waiting_time = j.start_time - j.arrival_time
                 /\ r.response_time = r.waiting_time + r.service_time + r.backup_time
                 /\ ~backed_up => r.backup_time = 0

\* a job that waited for its slot and was backed up for a positive time has
\* ended, and so has a job without backup
C37_CompletedWithAndWithoutBackup ==
    /\ cfg.variant = "ReliableServer"
    /\ \E a, b \in 1..Len(log) :
         /\ log[a].event_type = "end_service"
         /\ log[a].backup_time > 0
         /\ log[a].waiting_time > 0
         /\ log[a].service_time > 0
         /\ log[b].event_type = "end_service"
         /\ log[b].entity_id # log[a].entity_id
         /\ \A c \in 1..Len(log) :
              log[c].event_type = "backup_start" => log[c].entity_id # log[b].entity_id

\* C38: on a HeterogeneousServer each arrival record is written, and the
\* arrivals counter incremented, after the wait for the gate: the record's
\* time is the first instant from the job's arrival_time on at which the gate
\* is open (arrival_time itself when it is open then), a job still behind the
\* gate has no record and is not counted, and the waiting time of a started
\* job, start_time - arrival_time, covers the time behind the gate
C38_ArrivalRecordedAfterGate ==
    cfg.variant = "HeterogeneousServer" =>
      LET arrivals == {k \in 1..Len(log) : log[k].event_type = "arrival"} IN
        /\ \A k \in arrivals :
             LET p == CHOOSE i \in 1..Len(jobs) : jobs[i].id = log[k].entity_id
                 j == jobs[p]
             IN  /\ is_open(log[k].time)
                 /\ log[k].time >= j.arrival_time
                 /\ \A t \in j.arrival_time..(log[k].time - 1) : ~is_open(t)
                 /\ procs[p].pc \notin {"start", "gate"}
                 /\ j.start_time # None
                      => get_waiting_time(j) >= log[k].time - j.arrival_time
        /\ \A p \in 1..Len(procs) :
             procs[p].pc \in {"start", "gate"}
               => \A k \in 1..Len(log) : log[k].entity_id # jobs[p].id
        /\ stats.arrivals["ING"] + stats.arrivals["PREPA"] + stats.arrivals["AUTRE"]
             = Cardinality(arrivals)
        /\ \A k \in 1..Len(log) :
             log[k].event_type = "end_service"
               => LET p == CHOOSE i \in 1..Len(jobs) : jobs[i].id = log[k].entity_id
                  IN  log[k].waiting_time = jobs[p].start_time - jobs[p].arrival_time

\* a job arrived while the gate was closed, was recorded two time units later
\* when it reopened, and has ended
C38_RecordedAtReopening ==
    /\ cfg.variant = "HeterogeneousServer"
    /\ \E k \in 1..Len(log), e \in 1..Len(log), i \in 1..Len(jobs) :
         /\ log[k].event_type = "arrival"
         /\ log[k].entity_id = jobs[i].id
         /\ log[k].time >= jobs[i].arrival_time + 2
         /\ log[e].event_type = "end_service"
         /\ log[e].entity_id = jobs[i].id
         /\ log[e].waiting_time >= 2

----------------------------------------------------------------------------
(* A core Server and a HeterogeneousServer with policy FIFO on the same    *)
(* arrivals and service durations (SpecSame): the Server runs first, then  *)
(* reset() and the HeterogeneousServer, fed what the first run was fed     *)

\* engine.reset() after the run of the Server (its events kept by the
\* caller), then a HeterogeneousServer with the same number of servers,
\* policy FIFO and no gating is built
SimulationEngine_reset_as_HeterogeneousServer ==
    /\ cfg.variant = "Server"
    /\ state = "stopped"
    /\ run_no < MaxRuns
    /\ run_no' = run_no + 1
    /\ first_log' = log
    /\ cfg' = Config("HeterogeneousServer", cfg.num_servers, 0, cfg.duration)
    /\ state' = "built"
    /\ now' = 0
    /\ evq' = <<>>
    /\ eid' = 0
    /\ users' = <<>>
    /\ queue' = <<>>
    /\ custom_queue' = <<>>
    /\ jobs' = <<>>
    /\ procs' = <<>>
    /\ gens' = [g \in 1..Len(gens) |->
                  [pc |-> "new", job_type |-> gens[g].job_type, jobs_generated |-> 0]]
    /\ log' = <<>>
    /\ stats' = InitStats
    /\ Job_id_counter' = 0
    /\ issued' = Append(issued, <<>>)
    /\ UNCHANGED << rng, pq_call, last_call >>

\* the inputs of the second run are those of the first: the generator's next
\* timeout is due at the arrival time of the next job of the first run (at or
\* after the duration when there is none), and the service time drawn for a
\* job is the one its end record of the first run carries
SameFeed ==
    cfg.variant = "HeterogeneousServer" =>
      LET arrived == {k \in 1..Len(first_log) : first_log[k].event_type = "arrival"}
          ended   == {k \in 1..Len(first_log) : first_log[k].event_type = "end_service"}
      IN  /\ Len(jobs) <= Cardinality(arrived)
          /\ \A i \in 1..Len(jobs) :
               \E k \in arrived : /\ first_log[k].entity_id = jobs[i].id
                                  /\ first_log[k].time = jobs[i].arrival_time
          /\ \A n \in 1..Len(evq) :
               (evq[n].kind = "Timeout" /\ evq[n].who[1] = "gen")
                 => IF Len(jobs) < Cardinality(arrived)
                    THEN \E k \in arrived :
                           /\ first_log[k].entity_id = Job_id_counter
                           /\ first_log[k].time = evq[n].time
                    ELSE evq[n].time >= cfg.duration
          /\ \A i \in 1..Len(jobs) :
               jobs[i].service_time # None
                 => \E k \in ended : /\ first_log[k].entity_id = jobs[i].id
                                     /\ first_log[k].service_time = jobs[i].service_time

InitSame ==
    /\ \E c \in ServerConfigs : Constructed(c)
    /\ rng = Random(FALSE)
    /\ Idle

NextSame ==
    /\ \/ SimulationEngine_run_long
       \/ Environment_stop
       \/ generate_start
       \/ generate_arrival
       \/ generate_stop
       \/ Release_processed
       \/ NextServer
       \/ HeterogeneousServer_process_job_enqueue
       \/ HeterogeneousServer_process_job_start
       \/ HeterogeneousServer_process_job_end
       \/ SimulationEngine_reset_as_HeterogeneousServer
    /\ SameFeed'

SpecSame == InitSame /\ [][NextSame]_vars

\* C39: on the HeterogeneousServer with policy FIFO a process serves the job
\* it enqueued; each job starts and ends at the time it started and ended on
\* the Server, with the same waiting and response time; the jobs start in
\* the same order; and the finished run has served as many jobs
C39_FifoServesOwnJobLikeServer ==
    cfg.variant = "HeterogeneousServer" =>
      LET isStart(r) == r.event_type = "start_service"
          starts1 == SelectSeq(first_log, isStart)
          starts2 == SelectSeq(log, isStart)
          ends1   == {k \in 1..Len(first_log) : first_log[k].event_type = "end_service"}
          ends2   == {k \in 1..Len(log) : log[k].event_type = "end_service"}
      IN  /\ \A p \in 1..Len(procs) : procs[p].current_job \in {None, p}
          /\ Len(starts2) <= Len(starts1)
          /\ \A k \in 1..Len(starts2) :
               /\ starts2[k].entity_id = starts1[k].entity_id
               /\ starts2[k].time = starts1[k].time
          /\ \A k \in ends2 :
               \E h \in ends1 :
                 /\ first_log[h].entity_id = log[k].entity_id
                 /\ first_log[h].time = log[k].time
                 /\ first_log[h].service_time = log[k].service_time
                 /\ first_log[h].waiting_time = log[k].waiting_time
                 /\ first_log[h].response_time = log[k].response_time
          /\ state = "stopped"
               => /\ Len(starts2) = Len(starts1)
                  /\ Cardinality(ends2) = Cardinality(ends1)

\* the second run has ended; two of its jobs arrived at the same instant and
\* one of them waited for the other's slot
C39_BothServedSimultaneousArrivals ==
    /\ cfg.variant = "HeterogeneousServer"
    /\ state = "stopped"
    /\ \E i, j \in 1..Len(jobs) :
         /\ i < j
         /\ jobs[i].arrival_time = jobs[j].arrival_time
         /\ jobs[j].start_time = jobs[i].end_time
         /\ jobs[j].start_time > jobs[j].arrival_time
         /\ jobs[j].end_time # None

====
